---- MODULE Spec2Model ----
(***************************************************************************)
(* text-2-midi-2-acid: the symbol-to-event mappers (text_to_event_queue of *)
(* acid2midi.py and speedcore2midi.py) and the tick-driven player          *)
(* (play_event_queue) with its guaranteed-run drain, as one state machine. *)
(*                                                                         *)
(* An event is the source's tuple <<tick, track, action, value, param>>.   *)
(* The seeded generator is a stream of values u in 0..99 (u/100 is what    *)
(* random.random() returns); the stream stands for the seed, which the     *)
(* source derives from the text.                                           *)
(***************************************************************************)
EXTENDS Integers, Sequences, FiniteSets, TLC

\* ------------------------------------------------------------------ bounds
\* Longest input text handed to text_to_event_queue.
MaxLen == 2
\* Period of the random stream (the stream repeats after RngPeriod draws).
RngPeriod == 2
\* Longest input text when the mapper is run on its own.
MapLen == 3

\* --------------------------------------------------------------- constants
NOTE_BASE == 48
OCTAVE == 12
MINOR_PENTATONIC == <<0, 3, 5, 7, 10>>
PAD_CHORD_NOTES == <<0, 3, 7>>
DRUM_NOTES ==
    [kick |-> 48, snare |-> 50, ltom |-> 52, htom |-> 53, rim |-> 55,
     clap |-> 57, ch |-> 59, oh |-> 60, crash |-> 62, ride |-> 64]

VOWELS == {"a", "e", "i", "o", "u"}
DIGITS == {"0", "1", "2", "3", "4", "5", "6", "7", "8", "9"}
PUNCTUATION == {".", ","}
SAMPLES == {"@", ","}
VOWEL_ORDER == <<"a", "e", "i", "o", "u">>
CONSONANT_ORDER ==
    <<"t", "n", "s", "h", "r", "d", "l", "u", "c", "m", "f", "w", "y", "p",
      "v", "b", "g", "k", "q", "j", "x", "z">>
ENCODABLE ==
    {"e", "t", "a", "o", "i", "n", "s", "h", "r", "d", "l", "u", "c", "m",
     "f", "w", "y", "p", "v", "b", "g", "k", "q", "j", "x", "z"} \cup DIGITS

\* The two text programs; DEVICES in dict (insertion) order, which is the
\* order the drain walks them in.
Variants == {"acid2midi", "speedcore2midi"}

DEVICES(v) ==
    IF v = "acid2midi"
    THEN <<"TB303", "BP909", "LeadSynth", "PadSynth">>
    ELSE IF v = "speedcore2midi"
    THEN <<"TB303", "BP909", "LeadSynth", "PadSynth", "Samples">>
    ELSE <<"TB303", "BP909", "LeadSynth", "PadSynth", "SampleBank1",
           "SampleBank2", "ArpSynth", "BassSub">>

\* DEVICES[device][2] of speedcore2midi and of acidtrack; acid2midi has no
\* channel entry and sends the bare status byte.
DeviceChannel(v, device) ==
    IF v = "acid2midi" THEN 1
    ELSE IF v = "speedcore2midi" THEN IF device = "Samples" THEN 5 ELSE 1
    ELSE CHOOSE k \in 1..Len(DEVICES(v)) : DEVICES(v)[k] = device

DeviceSet(v) == {DEVICES(v)[k] : k \in 1..Len(DEVICES(v))}

\* ----------------------------------------------------------------- helpers
\* str.lower() on the symbols of the input alphabet.
Lower(ch) ==
    CASE ch = "A" -> "a" [] ch = "E" -> "e" [] ch = "I" -> "i"
      [] ch = "O" -> "o" [] ch = "U" -> "u" [] ch = "T" -> "t"
      [] ch = "N" -> "n" [] ch = "S" -> "s" [] ch = "H" -> "h"
      [] OTHER -> ch

\* str.index(ch): 0-based position of ch in an order string.
IndexIn(order, ch) == (CHOOSE k \in 1..Len(order) : order[k] = ch) - 1

InOrder(order, ch) == \E k \in 1..Len(order) : order[k] = ch

\* int(ch) for a digit.
DigitValue(ch) ==
    CASE ch = "0" -> 0 [] ch = "1" -> 1 [] ch = "2" -> 2 [] ch = "3" -> 3
      [] ch = "4" -> 4 [] ch = "5" -> 5 [] ch = "6" -> 6 [] ch = "7" -> 7
      [] ch = "8" -> 8 [] ch = "9" -> 9

\* No clamping: the pitch as computed.
ClampNone(n) == n

Clamp(n) == IF n < 0 THEN 0 ELSE IF n > 127 THEN 127 ELSE n

ScaleNote(rank) == Clamp(NOTE_BASE + MINOR_PENTATONIC[(rank % Len(MINOR_PENTATONIC)) + 1])

\* The ranks of an order of the names that puts "on" before "cc" and "off".
StrRankOnFirst(s) ==
    CASE s = "ArpSynth" -> 1 [] s = "BP909" -> 2 [] s = "BassSub" -> 3
      [] s = "LeadSynth" -> 4 [] s = "PadSynth" -> 5 [] s = "SampleBank1" -> 6
      [] s = "SampleBank2" -> 7 [] s = "Samples" -> 8 [] s = "TB303" -> 9
      [] s = "on" -> 0 [] s = "cc" -> 1 [] s = "off" -> 2

\* Python compares str by code point; these are the ranks of the track and
\* action names under that order ('A' < 'B' < 'L' < 'P' < 'S' < 'T', "BP" <
\* "Ba", "SampleB" < "Samples"; "cc" < "off" < "on").
StrRank(s) ==
    CASE s = "ArpSynth" -> 1 [] s = "BP909" -> 2 [] s = "BassSub" -> 3
      [] s = "LeadSynth" -> 4 [] s = "PadSynth" -> 5 [] s = "SampleBank1" -> 6
      [] s = "SampleBank2" -> 7 [] s = "Samples" -> 8 [] s = "TB303" -> 9
      [] s = "cc" -> 1 [] s = "off" -> 2 [] s = "on" -> 3

\* A comparison that looks at the tick alone.
TupleLessByTick(a, b) == a[1] < b[1]

\* Python's tuple comparison a < b on (tick, track, action, value, param).
TupleLess(a, b) ==
    \/ a[1] < b[1]
    \/ a[1] = b[1] /\ StrRank(a[2]) < StrRank(b[2])
    \/ a[1] = b[1] /\ a[2] = b[2] /\ StrRank(a[3]) < StrRank(b[3])
    \/ a[1] = b[1] /\ a[2] = b[2] /\ a[3] = b[3] /\ a[4] < b[4]
    \/ a[1] = b[1] /\ a[2] = b[2] /\ a[3] = b[3] /\ a[4] = b[4] /\ a[5] < b[5]

\* heapq._siftdown(heap, 0, pos) with 1-based positions: move newitem up
\* while it is smaller than its parent.
RECURSIVE SiftDown(_, _, _)
SiftDown(heap, pos, newitem) ==
    IF pos > 1 /\ TupleLess(newitem, heap[pos \div 2])
    THEN SiftDown([heap EXCEPT ![pos] = heap[pos \div 2]], pos \div 2, newitem)
    ELSE [heap EXCEPT ![pos] = newitem]

\* heapq.heappush(event_queue, item)
HeapPush(heap, item) == SiftDown(Append(heap, item), Len(heap) + 1, item)

\* The comparison a sort uses: the whole tuple (sorted(event_queue)), the
\* tick alone (events.sort(key=lambda x: x[0])) or the input position
\* (sorted(char_timing, key=lambda x: x[1])).
KeyLess(key, a, b) ==
    CASE key = "tick" -> a[1] < b[1]
      [] key = "index" -> a[2] < b[2]
      [] OTHER -> TupleLess(a, b)

\* Insert e into the sorted sequence s after every element not greater than
\* it: list.sort / sorted are stable.
RECURSIVE InsertStable(_, _, _)
InsertStable(key, s, e) ==
    IF s = <<>> THEN <<e>>
    ELSE IF KeyLess(key, e, s[Len(s)])
         THEN Append(InsertStable(key, SubSeq(s, 1, Len(s) - 1), e), s[Len(s)])
         ELSE Append(s, e)

\* No sort at all: the sequence as it is.
SortNone(key, s) == s

RECURSIVE SortStable(_, _)
SortStable(key, s) ==
    IF s = <<>> THEN <<>>
    ELSE InsertStable(key, SortStable(key, SubSeq(s, 1, Len(s) - 1)), s[Len(s)])

\* ------------------------------------------------------------------- state
VARIABLES
    variant,          \* which program runs
    sample_notes,     \* SAMPLE_NOTES of speedcore2midi (set iteration order)
    seed,             \* the random stream random.seed(text) selects
    rng_pos,          \* draws taken so far, modulo the period
    text,             \* the input consumed so far by text_to_event_queue
    event_queue,      \* the mapper's heap
    emitted,          \* history: the events in the order they were pushed
    char_timing,      \* the mapper's annotation list
    current_time,     \* the mapper's tick counter
    merged,           \* the Merged Sequence text_to_event_queue returned
    char_queue,       \* the Annotation Stream it returned (acid2midi pops it)
    layer,            \* acidtrack: the instrument loop generate_acid_patterns is in
    bar,              \* acidtrack: that loop's bar
    pc,               \* position in the mapper / play_event_queue
    active_notes,     \* device -> set of sounding notes
    events,           \* play_event_queue's re-sorted copy of the sequence
    event_ptr,
    char_ptr,
    char_ready_ticks,
    text_order,
    tick,
    max_tick,
    drain_dev,        \* position of the drain's device loop
    drain_left,       \* notes of that device the drain has not reached yet
    sent,             \* history: every message a sink accepted
    echoed,           \* history: the symbols printed
    iters,            \* history: the tick of every loop iteration entered
    sleeps,           \* history: the tick before each time.sleep
    exit,             \* how the Running loop was left
    faulted,          \* the device whose send raised during Running
    drain_fault,      \* the device whose send raised during the drain
    drain_runs,       \* history: how often the finally block was entered
    midiouts,         \* main: the devices whose endpoint is open
    open_error,       \* main: the device whose open_virtual_port raised
    route_dev,        \* main: position of the connect loop over DEVICES
    attempts,         \* connect_midi_ports: passes of `for _ in range(5)` begun
    waits,            \* connect_midi_ports: time.sleep(0.5) calls made
    last_return       \* what connect_midi_ports returned to main

genVars == <<layer, bar>>
mainVars == <<midiouts, open_error, route_dev, attempts, waits, last_return>>
mapVars ==
    <<sample_notes, seed, rng_pos, text, event_queue, emitted, char_timing,
      current_time, merged, char_queue, genVars, mainVars>>
playVars ==
    <<active_notes, events, event_ptr, char_ptr, char_ready_ticks, text_order,
      tick, max_tick, drain_dev, drain_left, sent, echoed, iters, sleeps, exit,
      faulted, drain_fault, drain_runs>>
vars == <<variant, pc, mapVars, playVars>>

\* main has opened every endpoint and its connect loop is over.
Routed ==
    /\ midiouts = DeviceSet(variant)
    /\ open_error = "none"
    /\ route_dev = Len(DEVICES(variant)) + 1
    /\ attempts = 0
    /\ waits = 0
    /\ last_return = "none"

\* ------------------------------------------------------- the seeded generator
\* The values a stream is made of: u / 100 is one result of random.random().
RandomValues == {0, 99}
Streams == [1..RngPeriod -> RandomValues]

\* random.random() * 100 at draw number p.
Random(p) == seed[(p % RngPeriod) + 1]

\* random.randint(a, b) at draw number p.
RandInt(a, b, p) == a + (Random(p) * (b - a + 1)) \div 100

\* The symbols the input text is drawn from, one of each class the player can
\* tell apart: a separator, a sample trigger (unencodable in acid2midi), an
\* unencodable symbol and a vowel.
Alphabet == {" ", "@", "!", "a"}

\* ------------------------------------------------- acid2midi.text_to_event_queue
\* What one iteration of the for loop emits, in emission order, for symbol ch
\* at input position i, tick t and draw number p.
\* The chord struck and never released.
A2M_PadHeld(t) ==
    LET chord_root == NOTE_BASE + MINOR_PENTATONIC[1] + OCTAVE
    IN  [k \in 1..Len(PAD_CHORD_NOTES) |->
            <<t, "PadSynth", "on", Clamp(chord_root + PAD_CHORD_NOTES[k]), 60>>]

A2M_Pad(t) ==
    LET chord_root == NOTE_BASE + MINOR_PENTATONIC[1] + OCTAVE
        pair(k) == LET note == Clamp(chord_root + PAD_CHORD_NOTES[k])
                   IN  << <<t, "PadSynth", "on", note, 60>>,
                          <<t + 4, "PadSynth", "off", note, 0>> >>
    IN  pair(1) \o pair(2) \o pair(3)

A2M_Bass(cl, t, p) ==
    IF cl \in VOWELS THEN
        LET note == ScaleNote(IndexIn(VOWEL_ORDER, cl))
            duration == IF Random(p) < 60 THEN 2 ELSE 1
        IN  << <<t, "TB303", "on", note, 80>>,
               <<t + duration, "TB303", "off", note, 0>> >>
            \o (IF duration > 1
                THEN << <<t, "TB303", "cc", 5, 127>>,
                        <<t + duration, "TB303", "cc", 5, 0>> >>
                ELSE <<>>)
    ELSE IF cl \in DIGITS THEN
        LET note == ScaleNote(DigitValue(cl))
        IN  << <<t, "TB303", "on", note, 70>>,
               <<t + 1, "TB303", "off", note, 0>> >>
    ELSE IF InOrder(CONSONANT_ORDER, cl) THEN
        LET note == ScaleNote(IndexIn(CONSONANT_ORDER, cl))
        IN  << <<t, "TB303", "on", note, 100>>,
               <<t + 1, "TB303", "off", note, 0>>,
               <<t, "TB303", "cc", 71, 80>> >>
    ELSE <<>>

\* No companion drum hit at all.
A2M_NoDrums(cl, i, t) == <<>>

A2M_Drums(cl, i, t) ==
    IF cl \in VOWELS THEN
        << <<t, "BP909", "on", DRUM_NOTES.kick, 100>>,
           <<t + 1, "BP909", "off", DRUM_NOTES.kick, 0>> >>
    ELSE IF cl \in DIGITS THEN
        << <<t, "BP909", "on", DRUM_NOTES.oh, 80>>,
           <<t + 1, "BP909", "off", DRUM_NOTES.oh, 0>> >>
    ELSE IF InOrder(CONSONANT_ORDER, cl) THEN
        LET drum == IF i % 4 = 2 THEN DRUM_NOTES.snare
                    ELSE IF i % 4 = 0 THEN DRUM_NOTES.clap ELSE DRUM_NOTES.ch
            velocity == IF i % 4 = 2 \/ i % 4 = 0 THEN 90 ELSE 70
        IN  << <<t, "BP909", "on", drum, velocity>>,
               <<t + 1, "BP909", "off", drum, 0>> >>
    ELSE <<>>

A2M_Body(i, ch, t, p) ==
    LET cl == Lower(ch) IN
    IF ch = " " \/ cl \in PUNCTUATION THEN
        [ev |-> << <<t, "TB303", "cc", 71, 60>> >> \o A2M_Pad(t),
         draws |-> 0, timing |-> TRUE, step |-> 1]
    ELSE IF cl \notin ENCODABLE THEN
        [ev |-> <<>>, draws |-> 0, timing |-> TRUE, step |-> 0]
    ELSE
        [ev |-> A2M_Bass(cl, t, p) \o A2M_Drums(cl, i, t),
         draws |-> IF cl \in VOWELS THEN 1 ELSE 0, timing |-> TRUE, step |-> 1]

\* -------------------------------------------- speedcore2midi.text_to_event_queue
\* The sample branch when SAMPLE_NOTES is notes.
SC_SampleWith(notes, ch, t, p) ==
    << <<t, "Samples", "on", Clamp(notes[ch]), RandInt(127, 127, p)>> >>

SC_Sample(ch, t, p) == SC_SampleWith(sample_notes, ch, t, p)

SC_Separator(t, p) ==
    LET chord_root == NOTE_BASE + MINOR_PENTATONIC[1] + OCTAVE
        pair(k) ==
            LET note == Clamp(chord_root + PAD_CHORD_NOTES[k]
                              + RandInt(-2, 2, p + 2 * k - 1))
            IN  << <<t, "PadSynth", "on", note, RandInt(60, 90, p + 2 * k)>>,
                   <<t + 1, "PadSynth", "off", note, 0>> >>
    IN  << <<t, "TB303", "cc", 74, RandInt(80, 127, p)>> >>
        \o pair(1) \o pair(2) \o pair(3)
        \o << <<t, "BP909", "on", DRUM_NOTES.crash, RandInt(90, 127, p + 7)>>,
              <<t + 1, "BP909", "off", DRUM_NOTES.crash, 0>> >>

\* The bassline branch and the number of draws it takes.
SC_BassDraws(cl) ==
    IF cl \in VOWELS THEN 3 ELSE IF cl \in DIGITS THEN 1 ELSE 2

SC_Bass(cl, t, p) ==
    IF cl \in VOWELS THEN
        LET note == ScaleNote(IndexIn(VOWEL_ORDER, cl))
            velocity == RandInt(80, 127, p)
            duration == IF Random(p + 1) < 60 THEN 2 ELSE 1
        IN  << <<t, "TB303", "on", note, velocity>>,
               <<t + duration, "TB303", "off", note, 0>> >>
            \o (IF duration > 1
                THEN << <<t, "TB303", "cc", 5, 127>>,
                        <<t + duration, "TB303", "cc", 5, 0>> >>
                ELSE <<>>)
            \o << <<t, "TB303", "cc", 74, RandInt(60, 127, p + 2)>> >>
    ELSE IF cl \in DIGITS THEN
        LET note == ScaleNote(DigitValue(cl))
            velocity == RandInt(70, 110, p)
        IN  << <<t, "TB303", "on", note, velocity>>,
               <<t + 1, "TB303", "off", note, 0>> >>
    ELSE
        LET note == ScaleNote(IndexIn(CONSONANT_ORDER, cl))
            velocity == RandInt(100, 127, p)
        IN  << <<t, "TB303", "on", note, velocity>>,
               <<t + 1, "TB303", "off", note, 0>>,
               <<t, "TB303", "cc", 71, RandInt(80, 127, p + 1)>> >>

\* Kick on every character, then the hi-hat that fires with probability 0.7.
SC_HatFires(p) == Random(p + 1) < 70

SC_KickHatDraws(p) == IF SC_HatFires(p) THEN 4 ELSE 2

SC_KickHat(t, p) ==
    << <<t, "BP909", "on", DRUM_NOTES.kick, RandInt(100, 127, p)>>,
       <<t + 1, "BP909", "off", DRUM_NOTES.kick, 0>> >>
    \o (IF SC_HatFires(p)
        THEN LET drum == IF Random(p + 2) < 80 THEN DRUM_NOTES.ch ELSE DRUM_NOTES.oh
             IN  << <<t, "BP909", "on", drum, RandInt(60, 90, p + 3)>>,
                    <<t + 1, "BP909", "off", drum, 0>> >>
        ELSE <<>>)

\* The accent that is a kick for every class of symbol.
SC_AccentKick(cl, i, t, p) ==
    << <<t, "BP909", "on", DRUM_NOTES.kick, RandInt(100, 127, p)>>,
       <<t + 1, "BP909", "off", DRUM_NOTES.kick, 0>> >>

\* Snares/claps/others: one draw in every branch.
SC_Accent(cl, i, t, p) ==
    IF cl \in VOWELS THEN
        << <<t, "BP909", "on", DRUM_NOTES.kick, RandInt(100, 127, p)>>,
           <<t + 1, "BP909", "off", DRUM_NOTES.kick, 0>> >>
    ELSE IF cl \in DIGITS THEN
        << <<t, "BP909", "on", DRUM_NOTES.oh, RandInt(60, 90, p)>>,
           <<t + 1, "BP909", "off", DRUM_NOTES.oh, 0>> >>
    ELSE
        LET drum == IF i % 4 = 2 THEN DRUM_NOTES.snare
                    ELSE IF i % 4 = 0 THEN DRUM_NOTES.clap ELSE DRUM_NOTES.rim
            velocity == IF i % 4 = 2 \/ i % 4 = 0 THEN 90 ELSE 70
        IN  << <<t, "BP909", "on", drum, RandInt(velocity, 127, p)>>,
               <<t + 1, "BP909", "off", drum, 0>> >>

\* The lead voice: the draw is taken on vowels only (short-circuit and).
SC_LeadFires(cl, p) == cl \in VOWELS /\ Random(p) < 40

SC_LeadDraws(cl, p) ==
    IF cl \notin VOWELS THEN 0 ELSE IF SC_LeadFires(cl, p) THEN 2 ELSE 1

SC_Lead(cl, t, p) ==
    IF SC_LeadFires(cl, p) THEN
        LET note == Clamp(NOTE_BASE
                          + MINOR_PENTATONIC[(IndexIn(VOWEL_ORDER, cl)
                                              % Len(MINOR_PENTATONIC)) + 1]
                          + OCTAVE * 2)
        IN  << <<t, "LeadSynth", "on", note, RandInt(80, 127, p + 1)>>,
               <<t + 1, "LeadSynth", "off", note, 0>>,
               <<t, "LeadSynth", "cc", 71, 127>> >>
    ELSE <<>>

SC_Body(i, ch, t, p) ==
    LET cl == Lower(ch) IN
    IF ch \in SAMPLES THEN
        [ev |-> SC_Sample(ch, t, p), draws |-> 1, timing |-> TRUE, step |-> 1]
    ELSE IF ch = " " \/ cl \in PUNCTUATION THEN
        [ev |-> SC_Separator(t, p), draws |-> 8, timing |-> TRUE, step |-> 1]
    ELSE IF cl \notin ENCODABLE THEN
        [ev |-> <<>>, draws |-> 0, timing |-> FALSE, step |-> 1]
    ELSE
        LET q == p + SC_BassDraws(cl)
            r == q + SC_KickHatDraws(q)
            s == r + 1
        IN  [ev |-> SC_Bass(cl, t, p) \o SC_KickHat(t, q)
                    \o SC_Accent(cl, i, t, r) \o SC_Lead(cl, t, s),
             draws |-> (s - p) + SC_LeadDraws(cl, s),
             timing |-> TRUE, step |-> 1]

LoopBody(i, ch, t, p) ==
    IF variant = "acid2midi" THEN A2M_Body(i, ch, t, p) ELSE SC_Body(i, ch, t, p)

RECURSIVE PushAll(_, _)
PushAll(heap, evs) ==
    IF evs = <<>> THEN heap
    ELSE LET pushed == HeapPush(heap, Head(evs))
         IN  IF pushed = <<>> THEN pushed ELSE PushAll(pushed, Tail(evs))


\* text_to_event_queue(text) as a whole, in an interpreter whose SAMPLE_NOTES
\* is notes: what the loop pushes for the symbols from position i on, and
\* the sequence returned.
RECURSIVE RerunFrom(_, _, _, _)
RerunFrom(notes, i, t, p) ==
    IF i >= Len(text) THEN <<>>
    ELSE LET ch == text[i + 1]
             body == LoopBody(i, ch, t, p)
             ev == IF variant = "speedcore2midi" /\ ch \in SAMPLES
                   THEN SC_SampleWith(notes, ch, t, p) ELSE body.ev
         IN  ev \o RerunFrom(notes, i + 1, t + body.step, p + body.draws)

Rerun(notes) == SortStable("tuple", PushAll(<<>>, RerunFrom(notes, 0, 0, 0)))

\* -------------------------------------------------------------------- Init
\* SAMPLE_NOTES = {char: i for i, char in enumerate(SAMPLES)}: SAMPLES is a
\* set of str, whose iteration order changes with the interpreter's hash
\* seed, so either symbol may get note 0.
SampleNoteMaps ==
    {[c \in SAMPLES |-> IF c = "@" THEN 0 ELSE 1],
     [c \in SAMPLES |-> IF c = "@" THEN 1 ELSE 0]}

Init ==
    /\ variant \in Variants
    /\ sample_notes \in IF variant = "speedcore2midi"
                        THEN SampleNoteMaps
                        ELSE {[c \in SAMPLES |-> 0]}
    /\ seed \in Streams
    /\ rng_pos = 0
    /\ text = <<>>
    /\ event_queue = <<>>
    /\ emitted = <<>>
    /\ char_timing = <<>>
    /\ current_time = 0
    /\ merged = <<>>
    /\ char_queue = <<>>
    /\ layer = 0
    /\ bar = 0
    /\ pc = "map"
    /\ active_notes = <<>>
    /\ events = <<>>
    /\ event_ptr = 0
    /\ char_ptr = 0
    /\ char_ready_ticks = <<>>
    /\ text_order = <<>>
    /\ tick = 0
    /\ max_tick = 0
    /\ drain_dev = 0
    /\ drain_left = {}
    /\ sent = <<>>
    /\ echoed = <<>>
    /\ iters = <<>>
    /\ sleeps = <<>>
    /\ exit = "none"
    /\ faulted = "none"
    /\ drain_fault = "none"
    /\ drain_runs = 0
    /\ Routed

\* ------------------------------------------------------ text_to_event_queue
\* One iteration of `for i, ch in enumerate(text)`: the next symbol of the
\* input is ch.
MapSymbol(ch) ==
    /\ pc = "map"
    /\ LET body == LoopBody(Len(text), ch, current_time, rng_pos) IN
        /\ text' = Append(text, ch)
        /\ event_queue' = PushAll(event_queue, body.ev)
        /\ emitted' = emitted \o body.ev
        /\ char_timing' = IF body.timing
                          THEN Append(char_timing, <<current_time, Len(text), ch>>)
                          ELSE char_timing
        /\ current_time' = current_time + body.step
        /\ rng_pos' = (rng_pos + body.draws) % RngPeriod
    /\ UNCHANGED <<variant, pc, sample_notes, seed, merged, char_queue, genVars, mainVars,
                   playVars>>

\* The same iteration, for the texts the player is run on.
MapChar(ch) == Len(text) < MaxLen /\ MapSymbol(ch)

\* return sorted(event_queue), sorted(char_timing, key=lambda x: x[1])
MapReturn ==
    /\ pc = "map"
    /\ merged' = SortStable("tuple", event_queue)
    /\ char_queue' = SortStable("index", char_timing)
    /\ pc' = "call"
    /\ UNCHANGED <<variant, sample_notes, seed, rng_pos, text, event_queue,
                   emitted, char_timing, current_time, genVars, mainVars,
                   playVars>>

\* --------------------------------------------------------- play_event_queue
\* The key of events.sort(key=lambda x: x[0]).
TickLess(a, b) == a[1] < b[1]

\* events.sort(key=lambda x: x[0]): the stable insertion sort once more,
\* done by SortSeq for the thousands of events of acidtrack.
SortByTick(s) ==
    IF variant = "acidtrack" THEN SortSeq(s, TickLess) ELSE SortStable("tick", s)

SetMax(S) == IF S = {} THEN 0 ELSE CHOOSE m \in S : \A x \in S : x <= m

Ticks(s) == {s[k][1] : k \in 1..Len(s)}

\* MaxTick without the one past the highest tick.
MaxTickLast(evs, cq) == SetMax(Ticks(evs) \cup Ticks(cq))

\* MaxTick from the ticks of the annotations alone.
MaxTickOfText(evs, cq) == SetMax(Ticks(cq)) + 1

\* max([e[0] for e in events] + annotation ticks, default=0) + 1
MaxTick(evs, cq) == SetMax(Ticks(evs) \cup Ticks(cq)) + 1

\* active_notes = {device: set() ...}; events copied and re-sorted by tick;
\* the echo tables; event_ptr, tick and max_tick set.
PlaySetup ==
    /\ pc = "call"
    /\ active_notes' = [d \in DeviceSet(variant) |-> {}]
    /\ events' = SortByTick(merged)
    /\ char_ready_ticks' =
           [i \in {char_queue[k][2] : k \in 1..Len(char_queue)} |->
               LET k == CHOOSE k \in 1..Len(char_queue) : char_queue[k][2] = i
               IN  char_queue[k][1]]
    /\ text_order' = [k \in 1..Len(char_queue) |-> char_queue[k][3]]
    /\ event_ptr' = 0
    /\ char_ptr' = 0
    /\ tick' = 0
    /\ max_tick' = MaxTick(SortByTick(merged), char_queue)
    /\ pc' = "loop"
    /\ UNCHANGED <<variant, mapVars, drain_dev, drain_left, sent, echoed, iters,
                   sleeps, exit, faulted, drain_fault, drain_runs>>

\* The first device at or after position k of the drain's loop that has a
\* note to silence (a device with none costs the loop nothing).
RECURSIVE DrainFrom(_, _)
DrainFrom(notes, k) ==
    IF k > Len(DEVICES(variant)) THEN k
    ELSE IF notes[DEVICES(variant)[k]] # {} THEN k
    ELSE DrainFrom(notes, k + 1)

\* The notes the drain's inner loop `for note in notes` starts with at
\* position k of the device loop.
DrainNotes(notes, k) ==
    IF k > Len(DEVICES(variant)) THEN {} ELSE notes[DEVICES(variant)[k]]

\* Control reaches the finally block.
EnterDrain(how) ==
    /\ pc' = "drain"
    /\ exit' = how
    /\ drain_runs' = drain_runs + 1
    /\ drain_dev' = DrainFrom(active_notes, 1)
    /\ drain_left' = DrainNotes(active_notes, DrainFrom(active_notes, 1))

\* while tick <= max_tick: the loop body is entered.
LoopEnter ==
    /\ pc = "loop"
    /\ tick <= max_tick
    /\ iters' = Append(iters, tick)
    /\ pc' = IF variant = "acidtrack" THEN "tick" ELSE "echo"
    /\ UNCHANGED <<variant, mapVars, active_notes, events, event_ptr, char_ptr,
                   char_ready_ticks, text_order, tick, max_tick, drain_dev,
                   drain_left, sent, echoed, sleeps, exit, faulted,
                   drain_fault, drain_runs>>

\* while tick <= max_tick: the condition fails and the try block ends.
LoopExit ==
    /\ pc = "loop"
    /\ tick > max_tick
    /\ EnterDrain("complete")
    /\ UNCHANGED <<variant, mapVars, active_notes, events, event_ptr, char_ptr,
                   char_ready_ticks, text_order, tick, max_tick, sent, echoed,
                   iters, sleeps, faulted, drain_fault>>

\* acid2midi: at most one symbol is popped and printed per tick.
\* speedcore2midi: every entry whose tick is due is printed.
RECURSIVE DueUpTo(_, _, _)
DueUpTo(q, ptr, t) ==
    IF ptr < Len(q) /\ q[ptr + 1][1] <= t THEN DueUpTo(q, ptr + 1, t) ELSE ptr

Echo ==
    /\ pc = "echo"
    /\ IF variant = "acid2midi"
       THEN IF /\ char_queue # <<>>
               /\ char_ready_ticks[Len(text_order) - Len(char_queue)] <= tick
            THEN /\ echoed' = Append(echoed, Head(char_queue)[3])
                 /\ char_queue' = Tail(char_queue)
                 /\ UNCHANGED char_ptr
            ELSE UNCHANGED <<echoed, char_queue, char_ptr>>
       ELSE LET to == DueUpTo(char_queue, char_ptr, tick) IN
            /\ echoed' = echoed \o [k \in 1..(to - char_ptr) |->
                                        char_queue[char_ptr + k][3]]
            /\ char_ptr' = to
            /\ UNCHANGED char_queue
    /\ pc' = "dispatch"
    /\ UNCHANGED <<variant, sample_notes, seed, rng_pos, text, event_queue,
                   emitted, char_timing, current_time, merged, genVars, mainVars,
                   active_notes,
                   events, event_ptr, char_ready_ticks, text_order, tick,
                   max_tick, drain_dev, drain_left, sent, iters, sleeps, exit,
                   faulted, drain_fault, drain_runs>>

\* a | b on bytes.
RECURSIVE BitOr(_, _)
BitOr(a, b) ==
    IF a = 0 THEN b
    ELSE IF b = 0 THEN a
    ELSE 2 * BitOr(a \div 2, b \div 2) + (IF a % 2 = 1 \/ b % 2 = 1 THEN 1 ELSE 0)

NoteOnByte == 144
NoteOffByte == 128
ControlByte == 176

\* The bare status byte, whatever the device.
StatusBare(byte, device) == byte

\* The status byte of a message for device: acid2midi sends the bare byte,
\* speedcore2midi and acidtrack or the device's channel - 1 into it.
Status(byte, device) ==
    IF variant = "acid2midi" THEN byte
    ELSE BitOr(byte, DeviceChannel(variant, device) - 1)

\* The message list handed to midiout.send_message for an event.
Message(e) ==
    CASE e[3] = "on" -> <<Status(NoteOnByte, e[2]), e[4], e[5]>>
      [] e[3] = "off" -> <<Status(NoteOffByte, e[2]), e[4], 0>>
      [] e[3] = "cc" -> <<Status(ControlByte, e[2]), e[4], e[5]>>

\* EventDue as an `if` would have it: at most one event per iteration.
EventDueOnce ==
    /\ event_ptr < Len(events)
    /\ events[event_ptr + 1][1] = tick
    /\ (event_ptr > 0 => events[event_ptr][1] # tick)

EventDue == event_ptr < Len(events) /\ events[event_ptr + 1][1] = tick

\* The inner while finds an event of this tick and the sink takes its message.
DispatchSend ==
    /\ pc = "dispatch"
    /\ EventDue
    /\ LET e == events[event_ptr + 1] IN
       sent' = Append(sent, [dev |-> e[2], msg |-> Message(e),
                             phase |-> "running", at |-> tick])
    /\ pc' = "record"
    /\ UNCHANGED <<variant, mapVars, active_notes, events, event_ptr, char_ptr,
                   char_ready_ticks, text_order, tick, max_tick, drain_dev,
                   drain_left, echoed, iters, sleeps, exit, faulted,
                   drain_fault, drain_runs>>

\* midiout.send_message raises: the try block is left through the exception.
DispatchRaise ==
    /\ pc = "dispatch"
    /\ EventDue
    /\ faulted' = events[event_ptr + 1][2]
    /\ EnterDrain("fault")
    /\ UNCHANGED <<variant, mapVars, active_notes, events, event_ptr, char_ptr,
                   char_ready_ticks, text_order, tick, max_tick, sent, echoed,
                   iters, sleeps, drain_fault>>

\* Recorded without the add of the NoteOn branch.
RecordedWithoutAdd(notes, e) ==
    CASE e[3] = "off" -> [notes EXCEPT ![e[2]] = @ \ {e[4]}]
      [] OTHER -> notes

\* Recorded without the discard of the NoteOff branch.
RecordedWithoutDiscard(notes, e) ==
    CASE e[3] = "on" -> [notes EXCEPT ![e[2]] = @ \cup {e[4]}]
      [] OTHER -> notes

\* Recorded on one set of notes that all the tracks share.
RecordedShared(notes, e) ==
    CASE e[3] = "on" -> [notes EXCEPT ![e[2]] = @ \cup {e[4]}]
      [] e[3] = "off" -> [d \in DOMAIN notes |-> notes[d] \ {e[4]}]
      [] OTHER -> notes

\* The statements after send_message: the bookkeeping of the branch taken,
\* then event_ptr += 1.
Recorded(notes, e) ==
    CASE e[3] = "on" -> [notes EXCEPT ![e[2]] = @ \cup {e[4]}]
      [] e[3] = "off" -> [notes EXCEPT ![e[2]] = @ \ {e[4]}]
      [] OTHER -> notes

Record ==
    /\ pc = "record"
    /\ active_notes' = Recorded(active_notes, events[event_ptr + 1])
    /\ event_ptr' = event_ptr + 1
    /\ pc' = "dispatch"
    /\ UNCHANGED <<variant, mapVars, events, char_ptr, char_ready_ticks,
                   text_order, tick, max_tick, drain_dev, drain_left, sent,
                   echoed, iters, sleeps, exit, faulted, drain_fault,
                   drain_runs>>

\* The inner while ends: no event of this tick is left.
DispatchDone ==
    /\ pc = "dispatch"
    /\ ~EventDue
    /\ pc' = "sleep"
    /\ UNCHANGED <<variant, mapVars, playVars>>

\* A sleep that is taken only in a tick that dispatched an event.
SleepWhenBusy ==
    /\ pc = "sleep"
    /\ sleeps' = IF event_ptr > 0 /\ events[event_ptr][1] = tick
                  THEN Append(sleeps, tick)
                  ELSE sleeps
    /\ pc' = "advance"
    /\ UNCHANGED <<variant, mapVars, active_notes, events, event_ptr, char_ptr,
                   char_ready_ticks, text_order, tick, max_tick, drain_dev,
                   drain_left, sent, echoed, iters, exit, faulted, drain_fault,
                   drain_runs>>

\* time.sleep(TICK_DURATION)
Sleep ==
    /\ pc = "sleep"
    /\ sleeps' = Append(sleeps, tick)
    /\ pc' = "advance"
    /\ UNCHANGED <<variant, mapVars, active_notes, events, event_ptr, char_ptr,
                   char_ready_ticks, text_order, tick, max_tick, drain_dev,
                   drain_left, sent, echoed, iters, exit, faulted, drain_fault,
                   drain_runs>>

\* tick += 1
Advance ==
    /\ pc = "advance"
    /\ tick' = tick + 1
    /\ pc' = "loop"
    /\ UNCHANGED <<variant, mapVars, active_notes, events, event_ptr, char_ptr,
                   char_ready_ticks, text_order, max_tick, drain_dev,
                   drain_left, sent, echoed, iters, sleeps, exit, faulted,
                   drain_fault, drain_runs>>

\* An external stop (KeyboardInterrupt) arrives between two statements of the
\* Running loop.
RunningPcs == {"loop", "echo", "dispatch", "record", "sleep", "advance"}

Interrupt ==
    /\ pc \in RunningPcs
    /\ EnterDrain("interrupt")
    /\ UNCHANGED <<variant, mapVars, active_notes, events, event_ptr, char_ptr,
                   char_ready_ticks, text_order, tick, max_tick, sent, echoed,
                   iters, sleeps, faulted, drain_fault>>

\* finally: one send of the inner loop; a set has no order the program
\* controls.  After a device's last note the outer loop moves on to the next
\* device that has notes.
DrainSend ==
    /\ pc = "drain"
    /\ drain_left # {}
    /\ \E note \in drain_left :
        /\ sent' = Append(sent, [dev |-> DEVICES(variant)[drain_dev],
                                 msg |-> <<Status(NoteOffByte, DEVICES(variant)[drain_dev]),
                                           note, 0>>,
                                 phase |-> "drain", at |-> tick])
        /\ IF drain_left = {note}
           THEN /\ drain_dev' = DrainFrom(active_notes, drain_dev + 1)
                /\ drain_left' = DrainNotes(active_notes,
                                            DrainFrom(active_notes, drain_dev + 1))
           ELSE /\ drain_dev' = drain_dev
                /\ drain_left' = drain_left \ {note}
    /\ UNCHANGED <<variant, pc, mapVars, active_notes, events, event_ptr,
                   char_ptr, char_ready_ticks, text_order, tick, max_tick,
                   echoed, iters, sleeps, exit, faulted, drain_fault,
                   drain_runs>>

\* A send of the drain raises: the exception leaves the finally block, and
\* the sends it had not reached never happen.  The sinks that raise here are
\* those that raised before: the sink whose exception ended Running may go on
\* failing (or have recovered); the others take every message.
DrainRaise ==
    /\ pc = "drain"
    /\ drain_left # {}
    /\ DEVICES(variant)[drain_dev] = faulted
    /\ drain_fault' = DEVICES(variant)[drain_dev]
    /\ pc' = "raised"
    /\ UNCHANGED <<variant, mapVars, active_notes, events, event_ptr, char_ptr,
                   char_ready_ticks, text_order, tick, max_tick, drain_dev,
                   drain_left, sent, echoed, iters, sleeps, exit, faulted,
                   drain_runs>>

\* The loops of the finally block are over: print("All notes off.").
DrainDone ==
    /\ pc = "drain"
    /\ drain_left = {}
    /\ drain_dev > Len(DEVICES(variant))
    /\ pc' = "stopped"
    /\ UNCHANGED <<variant, mapVars, playVars>>

Next ==
    \/ \E ch \in Alphabet : MapChar(ch)
    \/ MapReturn
    \/ PlaySetup
    \/ LoopEnter
    \/ LoopExit
    \/ Echo
    \/ DispatchSend
    \/ DispatchRaise
    \/ Record
    \/ DispatchDone
    \/ Sleep
    \/ Advance
    \/ Interrupt
    \/ DrainSend
    \/ DrainRaise
    \/ DrainDone

Spec == Init /\ [][Next]_vars

\* ------------------------------------------ acidtrack.generate_acid_patterns
BARS == 32
BEATS_PER_BAR == 4
TICKS_PER_BEAT == 4
AT_NOTE_BASE == 36
AT_SAMPLE_NOTES == [vocal1 |-> 48, vocal2 |-> 50, riser |-> 52, sweep |-> 53]

\* start_tick = bar * BEATS_PER_BAR * TICKS_PER_BEAT
StartTick(b) == b * BEATS_PER_BAR * TICKS_PER_BEAT

\* MINOR_PENTATONIC[k % len(MINOR_PENTATONIC)]
Degree(k) == MINOR_PENTATONIC[(k % Len(MINOR_PENTATONIC)) + 1]

\* The events of successive passes of a loop, in emission order.
RECURSIVE Flatten(_)
Flatten(ss) == IF ss = <<>> THEN <<>> ELSE Head(ss) \o Flatten(Tail(ss))

\* What one pass emitted and drew, followed by what the later passes did.
Join(one, rest) == [ev |-> one.ev \o rest.ev, draws |-> one.draws + rest.draws]

\* TB303: one pass of `for i in range(8)` in bar b.
AT_BassNote(b, i, p) ==
    LET pattern == IF b % 2 = 0 THEN <<0, 3, 5, 0, 7, 10, 3, 5>>
                   ELSE <<0, 5, 10, 0, 3, 7, 5, 3>>
        tk == StartTick(b) + i * 2
    IN  IF Random(p) < 95 THEN
            LET note == Clamp(AT_NOTE_BASE + Degree(pattern[i + 1]))
                velocity == 90 + RandInt(-10, 10, p + 1)
                duration == IF Random(p + 2) < 70 THEN 3 ELSE 2
            IN  [ev |-> << <<tk, "TB303", "on", note, velocity>>,
                           <<tk + duration, "TB303", "off", note, 0>>,
                           <<tk, "TB303", "cc", 5,
                             IF Random(p + 3) < 80 THEN 127 ELSE 0>>,
                           <<tk + duration, "TB303", "cc", 5, 0>>,
                           <<tk, "TB303", "cc", 71, 80 + RandInt(0, 40, p + 4)>>,
                           <<tk, "TB303", "cc", 74, 60 + RandInt(0, 50, p + 5)>> >>,
                 draws |-> 6]
        ELSE [ev |-> <<>>, draws |-> 1]

\* The passes i, i + 1, ..., 7, each starting at the draw the one before it
\* stopped at.
RECURSIVE AT_BassFrom(_, _, _)
AT_BassFrom(b, i, p) ==
    IF i >= 8 THEN [ev |-> <<>>, draws |-> 0]
    ELSE LET one == AT_BassNote(b, i, p)
         IN  Join(one, AT_BassFrom(b, i + 1, p + one.draws))

AT_BassBar(b, p) == AT_BassFrom(b, 0, p)

\* The sub-bass playing from bar 0 on.
AT_SubBarFromStart(b, p) ==
    LET note == AT_NOTE_BASE - OCTAVE
        pass(beat) ==
            LET tk == StartTick(b) + beat * TICKS_PER_BEAT
            IN  << <<tk, "BassSub", "on", note, 100>>,
                   <<tk + 2, "BassSub", "off", note, 0>> >>
    IN  [ev |-> Flatten([k \in 1..4 |-> pass(k - 1)]), draws |-> 0]

\* BassSub: bar b of the sub-bass loop.
AT_SubBar(b, p) ==
    LET note == AT_NOTE_BASE - OCTAVE
        pass(beat) ==
            LET tk == StartTick(b) + beat * TICKS_PER_BEAT
            IN  << <<tk, "BassSub", "on", note, 100>>,
                   <<tk + 2, "BassSub", "off", note, 0>> >>
    IN  [ev |-> IF b >= 2 THEN Flatten([k \in 1..4 |-> pass(k - 1)]) ELSE <<>>,
         draws |-> 0]

\* A NoteOn with a NoteOff at the same tick.
HitAtOnce(tk, drum, velocity, len) ==
    << <<tk, "BP909", "on", drum, velocity>>,
       <<tk, "BP909", "off", drum, 0>> >>

\* BP909: a NoteOn with its NoteOff.
Hit(tk, drum, velocity, len) ==
    << <<tk, "BP909", "on", drum, velocity>>,
       <<tk + len, "BP909", "off", drum, 0>> >>

\* BP909: one beat of bar b.  The draws, in order: the offbeat kick, the
\* four hi-hat velocities, the tom draw (bar >= 8 only) and which tom (when it
\* fires), the rimshot draw (bar >= 12 only).
AT_DrumBeat(b, beat, p) ==
    LET tk == StartTick(b) + beat * TICKS_PER_BEAT
        odd == beat % 2 = 1
        hat(i) == Hit(tk + i, DRUM_NOTES.ch, 70 + RandInt(-10, 10, p + 1 + i), 1)
        hats == Flatten([k \in 1..4 |-> hat(k - 1)])
        pt == p + 5
        tomDrawn == b >= 8
        tomFires == tomDrawn /\ Random(pt) < 30
        tom == IF Random(pt + 1) < 50 THEN DRUM_NOTES.ltom ELSE DRUM_NOTES.htom
        pr == pt + (IF tomFires THEN 2 ELSE IF tomDrawn THEN 1 ELSE 0)
        rimDrawn == b >= 12
        rimFires == rimDrawn /\ Random(pr) < 20
    IN  [ev |-> Hit(tk, DRUM_NOTES.kick, 100, 1)
                \o (IF Random(p) < 20 /\ odd
                    THEN Hit(tk + 2, DRUM_NOTES.kick, 80, 1) ELSE <<>>)
                \o (IF odd THEN Hit(tk, DRUM_NOTES.snare, 90, 1) ELSE <<>>)
                \o (IF odd /\ b >= 4 THEN Hit(tk + 2, DRUM_NOTES.clap, 85, 1) ELSE <<>>)
                \o hats
                \o (IF odd THEN Hit(tk + 2, DRUM_NOTES.oh, 80, 1) ELSE <<>>)
                \o (IF tomFires THEN Hit(tk + 3, tom, 80, 1) ELSE <<>>)
                \o (IF rimFires THEN Hit(tk + 1, DRUM_NOTES.rim, 75, 1) ELSE <<>>)
                \o (IF beat = 0 /\ b % 4 = 0
                    THEN Hit(tk, DRUM_NOTES.crash, 90, 2) ELSE <<>>),
         draws |-> (pr - p) + (IF rimDrawn THEN 1 ELSE 0)]

RECURSIVE AT_DrumFrom(_, _, _)
AT_DrumFrom(b, beat, p) ==
    IF beat >= 4 THEN [ev |-> <<>>, draws |-> 0]
    ELSE LET one == AT_DrumBeat(b, beat, p)
         IN  Join(one, AT_DrumFrom(b, beat + 1, p + one.draws))

AT_DrumBar(b, p) == AT_DrumFrom(b, 0, p)

\* LeadSynth: `for beat in [0, 2]` in bar b.
AT_LeadBar(b, p) ==
    LET pass(k) ==
            LET tk == StartTick(b) + (2 * k) * TICKS_PER_BEAT
                note == Clamp(AT_NOTE_BASE + OCTAVE
                              + MINOR_PENTATONIC[RandInt(0, 4, p + k) + 1])
            IN  << <<tk, "LeadSynth", "on", note, 80>>,
                   <<tk + 2, "LeadSynth", "off", note, 0>> >>
    IN  [ev |-> pass(0) \o pass(1), draws |-> 2]

\* ArpSynth: `for i in range(8)` in bar b.
AT_ArpBar(b, p) ==
    LET arp_notes == <<0, 3, 7, 10, 7, 3>>
        pass(i) ==
            LET tk == StartTick(b) + i * 2
                note == Clamp(AT_NOTE_BASE + OCTAVE * 2
                              + Degree(arp_notes[(i % Len(arp_notes)) + 1]))
            IN  << <<tk, "ArpSynth", "on", note, 75>>,
                   <<tk + 1, "ArpSynth", "off", note, 0>> >>
    IN  [ev |-> Flatten([k \in 1..8 |-> pass(k - 1)]), draws |-> 0]

\* PadSynth: the chord of bar b.
AT_PadBar(b, p) ==
    LET chord_root == AT_NOTE_BASE + OCTAVE + MINOR_PENTATONIC[1]
        pass(k) ==
            LET note == Clamp(chord_root + PAD_CHORD_NOTES[k])
            IN  << <<StartTick(b), "PadSynth", "on", note, 60>>,
                   <<StartTick(b) + 16, "PadSynth", "off", note, 0>> >>
    IN  [ev |-> Flatten([k \in 1..Len(PAD_CHORD_NOTES) |-> pass(k)]), draws |-> 0]

\* SampleBank1: the vocal chops of bar b.
AT_VocalBar(b, p) ==
    [ev |-> << <<StartTick(b), "SampleBank1", "on", AT_SAMPLE_NOTES.vocal1, 100>>,
               <<StartTick(b) + 4, "SampleBank1", "off", AT_SAMPLE_NOTES.vocal1, 0>> >>
            \o (IF b >= 12
                THEN << <<StartTick(b) + 8, "SampleBank1", "on",
                          AT_SAMPLE_NOTES.vocal2, 100>>,
                        <<StartTick(b) + 12, "SampleBank1", "off",
                          AT_SAMPLE_NOTES.vocal2, 0>> >>
                ELSE <<>>),
     draws |-> 0]

\* SampleBank2: the riser of bar b.
AT_RiserBar(b, p) ==
    [ev |-> << <<StartTick(b), "SampleBank2", "on", AT_SAMPLE_NOTES.riser, 90>>,
               <<StartTick(b) + 16, "SampleBank2", "off", AT_SAMPLE_NOTES.riser, 0>> >>,
     draws |-> 0]

\* The instrument loops in program order: the track, the range(first, stop,
\* stride) of its `for bar` loop.
Layers ==
    << [name |-> "TB303", first |-> 0, stop |-> BARS, stride |-> 1],
       [name |-> "BassSub", first |-> 0, stop |-> BARS, stride |-> 1],
       [name |-> "BP909", first |-> 0, stop |-> BARS, stride |-> 1],
       [name |-> "LeadSynth", first |-> 4, stop |-> BARS, stride |-> 1],
       [name |-> "ArpSynth", first |-> 8, stop |-> BARS, stride |-> 1],
       [name |-> "PadSynth", first |-> 2, stop |-> 28, stride |-> 1],
       [name |-> "SampleBank1", first |-> 4, stop |-> BARS, stride |-> 4],
       [name |-> "SampleBank2", first |-> 20, stop |-> 24, stride |-> 1] >>

\* One pass of the `for bar` loop of instrument loop number k: its events
\* are pushed, then the loop goes on to its next bar or the next loop starts.
GenBar(k, body) ==
    /\ pc = "gen"
    /\ layer = k
    /\ event_queue' = PushAll(event_queue, body.ev)
    /\ emitted' = emitted \o body.ev
    /\ rng_pos' = (rng_pos + body.draws) % RngPeriod
    /\ IF bar + Layers[k].stride < Layers[k].stop
       THEN bar' = bar + Layers[k].stride /\ layer' = layer
       ELSE /\ layer' = k + 1
            /\ bar' = IF k < Len(Layers) THEN Layers[k + 1].first ELSE 0
    /\ UNCHANGED <<variant, pc, sample_notes, seed, text, char_timing,
                   current_time, merged, char_queue, mainVars, playVars>>

GenTB303 == GenBar(1, AT_BassBar(bar, rng_pos))
GenBassSub == GenBar(2, AT_SubBar(bar, rng_pos))
GenBP909 == GenBar(3, AT_DrumBar(bar, rng_pos))
GenLeadSynth == GenBar(4, AT_LeadBar(bar, rng_pos))
GenArpSynth == GenBar(5, AT_ArpBar(bar, rng_pos))
GenPadSynth == GenBar(6, AT_PadBar(bar, rng_pos))
GenSampleBank1 == GenBar(7, AT_VocalBar(bar, rng_pos))
GenSampleBank2 == GenBar(8, AT_RiserBar(bar, rng_pos))

\* return sorted(event_queue)
GenReturn ==
    /\ pc = "gen"
    /\ layer = Len(Layers) + 1
    /\ merged' = SortSeq(event_queue, TupleLess)
    /\ pc' = "call"
    /\ UNCHANGED <<variant, sample_notes, seed, rng_pos, text, event_queue,
                   emitted, char_timing, current_time, char_queue, genVars,
                   mainVars,
                   playVars>>

\* ------------------------------------------------------ the mappers on their own
\* text_to_event_queue alone, on texts over one or more symbols of every
\* class: separators, the sample triggers, an unencodable symbol, vowels of
\* either case ("u" is also in CONSONANT_ORDER), consonants and a digit; and
\* generate_acid_patterns, which takes no input.
MapAlphabet == {" ", ".", ",", "@", "!", "a", "E", "u", "t", "z", "7"}

MapAny(ch) == Len(text) < MapLen /\ MapSymbol(ch)

\* random.seed(42); event_queue = []
GenInit ==
    /\ variant = "acidtrack"
    /\ sample_notes = [c \in SAMPLES |-> 0]
    /\ seed \in Streams
    /\ rng_pos = 0
    /\ text = <<>>
    /\ event_queue = <<>>
    /\ emitted = <<>>
    /\ char_timing = <<>>
    /\ current_time = 0
    /\ merged = <<>>
    /\ char_queue = <<>>
    /\ layer = 1
    /\ bar = 0
    /\ pc = "gen"
    /\ active_notes = <<>>
    /\ events = <<>>
    /\ event_ptr = 0
    /\ char_ptr = 0
    /\ char_ready_ticks = <<>>
    /\ text_order = <<>>
    /\ tick = 0
    /\ max_tick = 0
    /\ drain_dev = 0
    /\ drain_left = {}
    /\ sent = <<>>
    /\ echoed = <<>>
    /\ iters = <<>>
    /\ sleeps = <<>>
    /\ exit = "none"
    /\ faulted = "none"
    /\ drain_fault = "none"
    /\ drain_runs = 0
    /\ Routed

MapInit == Init \/ GenInit

MapNext ==
    \/ \E ch \in MapAlphabet : MapAny(ch)
    \/ MapReturn
    \/ GenTB303
    \/ GenBassSub
    \/ GenBP909
    \/ GenLeadSynth
    \/ GenArpSynth
    \/ GenPadSynth
    \/ GenSampleBank1
    \/ GenSampleBank2
    \/ GenReturn

MapSpec == MapInit /\ [][MapNext]_vars

\* ------------------------------------------------------------ acidtrack.main
\* The external stop is tried in the sleep of every StopEvery-th tick.
StopEvery == 16

\* The inner while of acidtrack's play_event_queue, from event_ptr = ptr: where
\* it stops, and the active notes it leaves.
RECURSIVE DueRun(_)
DueRun(ptr) ==
    IF ptr < Len(events) /\ events[ptr + 1][1] = tick THEN DueRun(ptr + 1) ELSE ptr

RECURSIVE RecordedRun(_, _, _)
RecordedRun(notes, ptr, to) ==
    IF ptr >= to THEN notes
    ELSE LET next == Recorded(notes, events[ptr + 1])
         IN  IF next = <<>> THEN notes ELSE RecordedRun(next, ptr + 1, to)

\* One pass of the outer loop of acidtrack's play_event_queue up to its
\* sleep: every event of this tick is sent and recorded, in order.
DispatchTick ==
    /\ pc = "tick"
    /\ LET to == DueRun(event_ptr) IN
       /\ sent' = sent \o [k \in 1..(to - event_ptr) |->
                              LET e == events[event_ptr + k]
                              IN  [dev |-> e[2], msg |-> Message(e),
                                   phase |-> "running", at |-> tick]]
       /\ active_notes' = RecordedRun(active_notes, event_ptr, to)
       /\ event_ptr' = to
    /\ pc' = "sleep"
    /\ UNCHANGED <<variant, mapVars, events, char_ptr, char_ready_ticks,
                   text_order, tick, max_tick, drain_dev, drain_left, echoed,
                   iters, sleeps, exit, faulted, drain_fault, drain_runs>>

\* KeyboardInterrupt while the player is in time.sleep, where it spends its
\* time.
InterruptSleep == pc = "sleep" /\ tick % StopEvery = 0 /\ Interrupt

\* generate_acid_patterns, then play_event_queue on what it returned.
TrackNext ==
    \/ GenTB303
    \/ GenBassSub
    \/ GenBP909
    \/ GenLeadSynth
    \/ GenArpSynth
    \/ GenPadSynth
    \/ GenSampleBank1
    \/ GenSampleBank2
    \/ GenReturn
    \/ PlaySetup
    \/ LoopEnter
    \/ LoopExit
    \/ DispatchTick
    \/ Sleep
    \/ Advance
    \/ InterruptSleep
    \/ DrainSend
    \/ DrainDone

TrackSpec == GenInit /\ [][TrackNext]_vars

\* The three programs, each from its mapper to the end of its player.
ProgramNext == (variant \in Variants /\ Next) \/ TrackNext

ProgramSpec == MapInit /\ [][ProgramNext]_vars

\* ------------------------------------------------------------------- main
\* The passes connect_midi_ports makes at most: `for _ in range(5)`.
CONNECT_TRIES == 5

Programs == Variants \cup {"acidtrack"}

\* The start of main: no endpoint is open yet.
MainInit ==
    /\ variant \in Programs
    /\ sample_notes \in IF variant = "speedcore2midi"
                        THEN SampleNoteMaps
                        ELSE {[c \in SAMPLES |-> 0]}
    /\ seed \in Streams
    /\ rng_pos = 0
    /\ text = <<>>
    /\ event_queue = <<>>
    /\ emitted = <<>>
    /\ char_timing = <<>>
    /\ current_time = 0
    /\ merged = <<>>
    /\ char_queue = <<>>
    /\ layer = IF variant = "acidtrack" THEN 1 ELSE 0
    /\ bar = 0
    /\ pc = "open"
    /\ active_notes = <<>>
    /\ events = <<>>
    /\ event_ptr = 0
    /\ char_ptr = 0
    /\ char_ready_ticks = <<>>
    /\ text_order = <<>>
    /\ tick = 0
    /\ max_tick = 0
    /\ drain_dev = 0
    /\ drain_left = {}
    /\ sent = <<>>
    /\ echoed = <<>>
    /\ iters = <<>>
    /\ sleeps = <<>>
    /\ exit = "none"
    /\ faulted = "none"
    /\ drain_fault = "none"
    /\ drain_runs = 0
    /\ midiouts = {}
    /\ open_error = "none"
    /\ route_dev = 0
    /\ attempts = 0
    /\ waits = 0
    /\ last_return = "none"

\* What main and connect_midi_ports leave alone.
MainFrame ==
    UNCHANGED <<variant, sample_notes, seed, rng_pos, text, event_queue,
                emitted, char_timing, current_time, merged, char_queue,
                genVars, playVars>>

\* The device the open loop of main has reached.
NextToOpen == DEVICES(variant)[Cardinality(midiouts) + 1]

\* rtmidi.MidiOut(...); open_virtual_port(src_port); midiouts[device] = midiout
OpenPort ==
    /\ pc = "open"
    /\ Cardinality(midiouts) < Len(DEVICES(variant))
    /\ midiouts' = midiouts \cup {NextToOpen}
    /\ UNCHANGED <<pc, open_error, route_dev, attempts, waits, last_return>>
    /\ MainFrame

\* The open raises after all: the mutant that goes on to the connect loop.
OpenRaiseIgnored ==
    /\ pc = "open"
    /\ Cardinality(midiouts) < Len(DEVICES(variant))
    /\ open_error' = NextToOpen
    /\ route_dev' = 1
    /\ pc' = "route"
    /\ UNCHANGED <<midiouts, attempts, waits, last_return>>
    /\ MainFrame

\* The open raises: except Exception: print("Failed to open MIDI ports"); return
OpenRaise ==
    /\ pc = "open"
    /\ Cardinality(midiouts) < Len(DEVICES(variant))
    /\ open_error' = NextToOpen
    /\ pc' = "aborted"
    /\ UNCHANGED <<midiouts, route_dev, attempts, waits, last_return>>
    /\ MainFrame

\* Every endpoint is open: time.sleep(0.5), then the connect loop starts.
OpenDone ==
    /\ pc = "open"
    /\ Cardinality(midiouts) = Len(DEVICES(variant))
    /\ route_dev' = 1
    /\ pc' = "route"
    /\ UNCHANGED <<midiouts, open_error, attempts, waits, last_return>>
    /\ MainFrame

\* for device, ... in DEVICES.items(): connect_midi_ports(src_port, dst_port)
RouteCall ==
    /\ pc = "route"
    /\ route_dev <= Len(DEVICES(variant))
    /\ pc' = "attempt"
    /\ UNCHANGED mainVars
    /\ MainFrame

\* for _ in range(5): ports = get_alsa_ports() is called.
AttemptBegin ==
    /\ pc = "attempt"
    /\ attempts < CONNECT_TRIES
    /\ attempts' = attempts + 1
    /\ pc' = "list"
    /\ UNCHANGED <<midiouts, open_error, route_dev, waits, last_return>>
    /\ MainFrame

\* get_alsa_ports returns a listing; src and dst are both in it, or not.
ListPorts(found) ==
    /\ pc = "list"
    /\ pc' = IF found THEN "bind" ELSE "wait"
    /\ UNCHANGED mainVars
    /\ MainFrame

\* `aconnect -l` exits with an error: except CalledProcessError: return {},
\* and no port is found in the empty listing.
ListFailed ==
    /\ pc = "list"
    /\ pc' = "wait"
    /\ UNCHANGED mainVars
    /\ MainFrame

\* `aconnect` cannot be run at all: check_output raises OSError
\* (FileNotFoundError), which no handler of the program catches.
ListRaise ==
    /\ pc = "list"
    /\ pc' = "crashed"
    /\ UNCHANGED mainVars
    /\ MainFrame

\* subprocess.run(['aconnect', src, dst], check=True) succeeds: return True
BindOk ==
    /\ pc = "bind"
    /\ last_return' = "True"
    /\ pc' = "routed"
    /\ UNCHANGED <<midiouts, open_error, route_dev, attempts, waits>>
    /\ MainFrame

\* except subprocess.CalledProcessError: the warning is printed.
BindFailed ==
    /\ pc = "bind"
    /\ pc' = "wait"
    /\ UNCHANGED mainVars
    /\ MainFrame

\* time.sleep(0.5) after a failed pass.
Wait ==
    /\ pc = "wait"
    /\ waits' = waits + 1
    /\ pc' = "attempt"
    /\ UNCHANGED <<midiouts, open_error, route_dev, attempts, last_return>>
    /\ MainFrame

\* The range is exhausted: return False
ReturnFalse ==
    /\ pc = "attempt"
    /\ attempts = CONNECT_TRIES
    /\ last_return' = "False"
    /\ pc' = "routed"
    /\ UNCHANGED <<midiouts, open_error, route_dev, attempts, waits>>
    /\ MainFrame

\* main takes the result (and prints "Failed to connect ...; continuing..."
\* when it is False); the locals of the call are gone.
RouteNext ==
    /\ pc = "routed"
    /\ route_dev' = route_dev + 1
    /\ attempts' = 0
    /\ waits' = 0
    /\ last_return' = "none"
    /\ pc' = "route"
    /\ UNCHANGED <<midiouts, open_error>>
    /\ MainFrame

\* The connect loop is over: the mapper is called.
RouteDone ==
    /\ pc = "route"
    /\ route_dev > Len(DEVICES(variant))
    /\ pc' = IF variant = "acidtrack" THEN "gen" ELSE "map"
    /\ UNCHANGED mainVars
    /\ MainFrame

\* text = text + " ": what main hands to text_to_event_queue ends with a
\* space.
MainReturn == text # <<>> /\ text[Len(text)] = " " /\ MapReturn

MainNext ==
    \/ OpenPort
    \/ OpenRaise
    \/ OpenDone
    \/ RouteCall
    \/ AttemptBegin
    \/ \E found \in BOOLEAN : ListPorts(found)
    \/ ListFailed
    \/ ListRaise
    \/ BindOk
    \/ BindFailed
    \/ Wait
    \/ ReturnFalse
    \/ RouteNext
    \/ RouteDone
    \/ \E ch \in Alphabet : MapChar(ch)
    \/ MainReturn
    \/ variant \in Variants /\ (Next /\ pc # "map")
    \/ TrackNext

MainSpec == MainInit /\ [][MainNext]_vars

\* ------------------------------------------------------ reading the histories
Terminal == pc \in {"stopped", "raised"}
Completed == pc = "stopped" /\ exit = "complete"

IsRunning(m) == m.phase = "running"
IsOnMsg(m) == m.msg[1] \div 16 = 9
IsOffMsg(m) == m.msg[1] \div 16 = 8

\* The messages the sinks accepted during Running, in order.
RunLog == SelectSeq(sent, IsRunning)

\* Forced NoteOffs the drain delivered to device d for note n.
DrainOffs(d, n) ==
    Cardinality({k \in 1..Len(sent) :
        /\ sent[k].phase = "drain" /\ IsOffMsg(sent[k])
        /\ sent[k].dev = d /\ sent[k].msg[2] = n})

\* NoteOffs delivered to device d for note n during Running.
RunOffs(d, n) ==
    Cardinality({k \in 1..Len(sent) :
        /\ sent[k].phase = "running" /\ IsOffMsg(sent[k])
        /\ sent[k].dev = d /\ sent[k].msg[2] = n})

\* NoteOn events for (d, n) in a sequence of events.
OnCount(evs, d, n) ==
    Cardinality({k \in 1..Len(evs) :
        evs[k][2] = d /\ evs[k][3] = "on" /\ evs[k][4] = n})

\* Every note a message or a bookkeeping set mentions.
NotesSeen ==
    {sent[k].msg[2] : k \in 1..Len(sent)}
    \cup {merged[k][4] : k \in 1..Len(merged)}
    \cup UNION {active_notes[d] : d \in DOMAIN active_notes}

\* The sink of d has taken a NoteOn for n and no NoteOff for n since.
Sounding(d, n) ==
    \E k \in 1..Len(sent) :
        /\ sent[k].dev = d /\ IsOnMsg(sent[k]) /\ sent[k].msg[2] = n
        /\ \A j \in (k + 1)..Len(sent) :
              ~(sent[j].dev = d /\ IsOffMsg(sent[j]) /\ sent[j].msg[2] = n)

\* The bookkeeping a NoteOn/NoteOff replay of events[1..k] must leave.
ActiveAfter(k, d) ==
    {events[i][4] : i \in {i \in 1..k :
        /\ events[i][2] = d /\ events[i][3] = "on"
        /\ \A j \in (i + 1)..k :
              ~(events[j][2] = d /\ events[j][3] = "off"
                /\ events[j][4] = events[i][4])}}

\* ------------------------------------------------------------------ claims
\* C1 (as claimed): whenever the Running loop is left, by completion, by a
\* sink's exception or by an external stop, the drain runs exactly once,
\* sends exactly one NoteOff for every (track, note) of the active-notes sets
\* and none for any other pair, and nothing is dispatched after it.
C1_DrainSilencesActiveOnce ==
    Terminal =>
        /\ drain_runs = 1
        /\ \A d \in DeviceSet(variant) : \A n \in NotesSeen :
              DrainOffs(d, n) = IF n \in active_notes[d] THEN 1 ELSE 0
        /\ \A j \in 1..Len(sent) : \A k \in (j + 1)..Len(sent) :
              sent[j].phase = "drain" => sent[k].phase = "drain"

\* C2 (as claimed): when a send raises during Running, no later event is
\* dispatched and the drain sends a NoteOff for every note active on the
\* other tracks, also when the sink that failed keeps failing in the drain.
C2_FaultStillSilencesOthers ==
    (Terminal /\ exit = "fault") =>
        /\ Len(RunLog) = event_ptr
        /\ \A d \in DeviceSet(variant) \ {faulted} : \A n \in active_notes[d] :
              DrainOffs(d, n) >= 1

\* C3 (as claimed): an external stop at any point of the Running loop still
\* runs the drain, and every note whose sink has taken a NoteOn and no later
\* NoteOff gets a NoteOff from the drain.
C3_InterruptSilencesSounding ==
    (pc = "stopped" /\ exit = "interrupt") =>
        /\ drain_runs = 1
        /\ \A d \in DeviceSet(variant) : \A n \in NotesSeen : ~Sounding(d, n)

\* C4: in a completed run every NoteOn(track, note) of the Merged Sequence
\* with no later NoteOff(track, note) in the sequence got a forced NoteOff
\* for (track, note) from the drain.
C4_UnmatchedNoteOnDrained ==
    Completed =>
        \A i \in 1..Len(merged) :
            (/\ merged[i][3] = "on"
             /\ \A j \in (i + 1)..Len(merged) :
                   ~(merged[j][2] = merged[i][2] /\ merged[j][3] = "off"
                     /\ merged[j][4] = merged[i][4]))
            => DrainOffs(merged[i][2], merged[i][4]) >= 1

C4_Witness ==
    /\ Completed
    /\ \E i \in 1..Len(merged) :
          /\ merged[i][3] = "on"
          /\ \A j \in (i + 1)..Len(merged) :
                ~(merged[j][2] = merged[i][2] /\ merged[j][3] = "off"
                  /\ merged[j][4] = merged[i][4])

\* C5 (as claimed): note balance: in a completed run, for every (track,
\* note), the NoteOns of the Merged Sequence are as many as the NoteOffs sent
\* during Running plus the forced NoteOffs of the drain.
C5_NoteBalance ==
    Completed =>
        \A d \in DeviceSet(variant) : \A n \in NotesSeen :
            OnCount(merged, d, n) = RunOffs(d, n) + DrainOffs(d, n)

\* C5 (amended): the balance holds for every pair of a track other than the
\* sample track; on the sample track, whose NoteOns have no NoteOff, no
\* NoteOff is sent during Running and the drain sends exactly one forced
\* NoteOff for each note triggered, however often it was triggered.
C5_NoteBalanceAmended ==
    Completed =>
        \A d \in DeviceSet(variant) : \A n \in NotesSeen :
            IF d = "Samples"
            THEN /\ RunOffs(d, n) = 0
                 /\ DrainOffs(d, n) = IF OnCount(merged, d, n) > 0 THEN 1 ELSE 0
            ELSE OnCount(merged, d, n) = RunOffs(d, n) + DrainOffs(d, n)

C5_Witness ==
    /\ Completed
    /\ \E n \in NotesSeen :
          OnCount(merged, "Samples", n) >= 2 /\ DrainOffs("Samples", n) = 1

\* C6 (as claimed): once the drain has finished, every track's active-notes
\* set is empty, on every exit path.
C6_ActiveEmptyAfterStopped ==
    pc = "stopped" => \A d \in DeviceSet(variant) : active_notes[d] = {}

\* C7: the k-th message the sinks take during Running is the k-th event of
\* the sequence, sent in the iteration of that event's tick; a completed run
\* has dispatched every event exactly once; and the active-notes sets are
\* what adding on NoteOn and removing on NoteOff (a no-op for an absent
\* note) leaves after the events dispatched so far.
C7_DispatchedOnceAtTick ==
    (pc \notin {"map", "call"}) =>
        /\ event_ptr <= Len(events)
        /\ (exit = "none" =>
              Len(sent) = event_ptr + (IF pc = "record" THEN 1 ELSE 0))
        /\ (Terminal =>
              \A k \in 1..Len(RunLog) :
                  /\ RunLog[k].dev = events[k][2]
                  /\ RunLog[k].msg = Message(events[k])
                  /\ RunLog[k].at = events[k][1])
        /\ (exit = "complete" =>
              event_ptr = Len(events) /\ Len(RunLog) = Len(events))
        /\ \A d \in DeviceSet(variant) :
              active_notes[d] = ActiveAfter(event_ptr, d)

C7_Witness ==
    /\ Completed
    /\ \E k \in 1..Len(events) :
          /\ events[k][3] = "off"
          /\ events[k][4] \notin ActiveAfter(k - 1, events[k][2])
    /\ \E k \in 1..Len(events) : events[k][1] > 0

\* C8: the returned sequence is non-decreasing in tick, the player's re-sort
\* leaves it as it is, and the messages go out in the order of the sequence,
\* so the ticks of successive dispatches never decrease.
C8_TickOrderPreserved ==
    /\ (pc = "call" =>
          \A i \in 1..(Len(merged) - 1) : merged[i][1] <= merged[i + 1][1])
    /\ (pc \notin {"map", "call"} => events = merged)
    /\ (Terminal =>
          \A k \in 1..Len(RunLog) :
              /\ <<RunLog[k].dev, RunLog[k].msg[2]>> = <<merged[k][2], merged[k][4]>>
              /\ k > 1 => RunLog[k - 1].at <= RunLog[k].at)

C8_Witness ==
    /\ Completed
    /\ Len(RunLog) = Len(merged)
    /\ \E i \in 1..Len(emitted) : \E j \in (i + 1)..Len(emitted) :
          emitted[i][1] > emitted[j][1]

\* The events of tick t in a sequence, in their order there.
RECURSIVE AtTick(_, _)
AtTick(evs, t) ==
    IF evs = <<>> THEN <<>>
    ELSE IF Head(evs)[1] = t THEN <<Head(evs)>> \o AtTick(Tail(evs), t)
    ELSE AtTick(Tail(evs), t)

TrackNamesAscending == <<"BP909", "LeadSynth", "PadSynth", "Samples", "TB303">>
ActionNamesAscending == <<"cc", "off", "on">>

\* (track, action, value, param) of a is not after that of b.
TieNotAfter(a, b) ==
    LET ta == IndexIn(TrackNamesAscending, a[2])
        tb == IndexIn(TrackNamesAscending, b[2])
        aa == IndexIn(ActionNamesAscending, a[3])
        ab == IndexIn(ActionNamesAscending, b[3])
    IN  \/ ta < tb
        \/ ta = tb /\ aa < ab
        \/ ta = tb /\ aa = ab /\ a[4] < b[4]
        \/ ta = tb /\ aa = ab /\ a[4] = b[4] /\ a[5] <= b[5]

C10_Iterations ==
    (pc \notin {"map", "call"}) =>
        /\ LET T == Ticks(merged) \cup Ticks(char_timing) IN
              \/ T = {} /\ max_tick = 1
              \/ (max_tick - 1) \in T /\ \A t \in T : t <= max_tick - 1
        /\ \A k \in 1..Len(iters) : iters[k] = k - 1
        /\ tick <= max_tick + 1
        /\ (pc \in RunningPcs \ {"loop"} => iters # <<>> /\ iters[Len(iters)] = tick)
        /\ (exit = "complete" => Len(iters) = max_tick + 1 /\ tick = max_tick + 1)

\* What is left to do, most significant first: the phase, the symbols or
\* ticks left, the events or forced NoteOffs left, the place in the iteration.
Measure ==
    << CASE pc = "map" -> 4 [] pc = "call" -> 3 [] pc \in RunningPcs -> 2
         [] pc = "drain" -> 1 [] OTHER -> 0,
       CASE pc = "map" -> MaxLen - Len(text)
         [] pc \in RunningPcs -> (max_tick + 1) - tick
         [] OTHER -> 0,
       CASE pc \in RunningPcs -> Len(events) - event_ptr
         [] pc = "drain" ->
              Cardinality({<<d, n>> \in DeviceSet(variant) \X NotesSeen :
                              n \in active_notes[d] /\ DrainOffs(d, n) = 0})
         [] OTHER -> 0,
       CASE pc = "loop" -> 6 [] pc = "echo" -> 5 [] pc = "dispatch" -> 4
         [] pc = "record" -> 3 [] pc = "sleep" -> 2 [] pc = "advance" -> 1
         [] OTHER -> 0 >>

\* a comes before b in the lexicographic order of tuples of naturals.
LexLess(a, b) ==
    \E k \in 1..Len(a) : a[k] < b[k] /\ a[k] >= 0 /\ \A j \in 1..(k - 1) : a[j] = b[j]

\* C10: tick starts at 0 and max_tick is one past the highest tick of the
\* Merged Sequence and the Annotation Stream (1 when both are empty); the
\* loop runs one iteration for each tick of 0..max_tick, in increasing order;
\* every step lowers a measure that is bounded from below, so no run goes on
\* for ever, and the step that finds tick > max_tick enters the drain.
C10_IterationsAndTermination ==
    /\ []C10_Iterations
    /\ [][/\ LexLess(Measure', Measure)
          /\ (pc = "loop" /\ tick > max_tick => pc' = "drain")]_vars

C10_Witness ==
    /\ Completed
    /\ max_tick >= 3
    /\ Len(iters) = max_tick + 1

\* ------------------------------------------------------ claims on the mappers
\* The event at place k of the emission history is a NoteOn and the event
\* pushed right after it is the NoteOff of the same track and note, at least
\* one tick later.
OnThenOff(k) ==
    /\ emitted[k][3] = "on"
    /\ k < Len(emitted)
    /\ emitted[k + 1][3] = "off"
    /\ emitted[k + 1][2] = emitted[k][2]
    /\ emitted[k + 1][4] = emitted[k][4]
    /\ emitted[k + 1][1] >= emitted[k][1] + 1

\* C11 (as claimed): in every mapper, every NoteOn pushed is accompanied by
\* exactly one NoteOff of the same track and note, pushed with it, at
\* tick + duration with duration >= 1.
C11_EveryNoteOnPaired ==
    \A k \in 1..Len(emitted) :
        /\ emitted[k][3] = "on" => OnThenOff(k)
        /\ emitted[k][3] = "off" => k > 1 /\ OnThenOff(k - 1)

\* C11 (amended): this holds of every NoteOn but those of the sample track
\* of speedcore2midi, which are pushed alone: no NoteOff is ever pushed for
\* the sample track.
C11_PairedExceptSamples ==
    \A k \in 1..Len(emitted) :
        /\ emitted[k][3] = "on" /\ emitted[k][2] # "Samples" => OnThenOff(k)
        /\ emitted[k][3] = "off" =>
              k > 1 /\ OnThenOff(k - 1) /\ emitted[k][2] # "Samples"

C11_Witness ==
    /\ pc = "call"
    /\ \E k \in 1..Len(emitted) :
          emitted[k][3] = "on" /\ emitted[k][2] = "Samples"
    /\ \E k \in 1..Len(emitted) :
          OnThenOff(k) /\ emitted[k + 1][1] = emitted[k][1] + 2

\* C12 (as claimed): mapping the same text again, in this or in another run
\* of the program (whose SAMPLE_NOTES may be either of the maps the set's
\* iteration order allows), returns the same Merged Sequence.
C12_SameSequenceEveryRun ==
    (pc = "call" /\ variant \in Variants) =>
        \A notes \in (IF variant = "speedcore2midi"
                      THEN SampleNoteMaps ELSE {sample_notes}) :
            Rerun(notes) = merged

\* The (tick, track) pairs at which a sequence of events has a NoteOn.
NoteOnPlaces(evs) ==
    {<<evs[k][1], evs[k][2]>> : k \in {j \in 1..Len(evs) : evs[j][3] = "on"}}

\* C13 (as claimed): for a fixed text the (tick, track) pairs of the NoteOns
\* are the same whatever the random generator returns: mapping the text with
\* the draws of another stream (this one, started d places further on) gives
\* the same pairs.
C13_PlacesSameForEveryDraw ==
    (pc = "call" /\ variant \in Variants) =>
        \A d \in 0..(RngPeriod - 1) :
            NoteOnPlaces(RerunFrom(sample_notes, 0, 0, d)) = NoteOnPlaces(emitted)

\* The tracks on which the class of symbol ch has a NoteOn whatever is drawn.
ClassTracks(ch) ==
    LET cl == Lower(ch) IN
    IF variant = "speedcore2midi" /\ ch \in SAMPLES THEN {"Samples"}
    ELSE IF ch = " " \/ cl \in PUNCTUATION
         THEN IF variant = "speedcore2midi" THEN {"PadSynth", "BP909"}
              ELSE {"PadSynth"}
    ELSE IF cl \notin ENCODABLE THEN {}
    ELSE {"TB303", "BP909"}

\* The tick of every symbol of txt, from the classes alone: in acid2midi an
\* unencodable symbol does not move the tick counter.
RECURSIVE ClassTicks(_)
ClassTicks(txt) ==
    IF txt = <<>> THEN <<>>
    ELSE LET front == SubSeq(txt, 1, Len(txt) - 1)
             before == ClassTicks(front)
             prev == front[Len(front)]
             held == /\ variant = "acid2midi"
                     /\ ~(prev = " " \/ Lower(prev) \in PUNCTUATION)
                     /\ Lower(prev) \notin ENCODABLE
         IN  IF front = <<>> THEN <<0>>
             ELSE Append(before, before[Len(before)] + (IF held THEN 0 ELSE 1))

\* C13 (amended): the NoteOn pairs on every track but the lead track are
\* those of the symbols' classes, whatever is drawn; a lead NoteOn is found
\* only at the tick of a vowel, and only in speedcore2midi, where a draw
\* decides whether it is emitted.
C13_PlacesFixedButLead ==
    (pc = "call" /\ variant \in Variants) =>
        LET ticks == ClassTicks(text)
            places == NoteOnPlaces(emitted)
        IN  /\ {pl \in places : pl[2] # "LeadSynth"}
                 = UNION {{<<ticks[k], tr>> : tr \in ClassTracks(text[k])} :
                             k \in 1..Len(text)}
            /\ \A pl \in places :
                  pl[2] = "LeadSynth" =>
                      /\ variant = "speedcore2midi"
                      /\ \E k \in 1..Len(text) :
                            ticks[k] = pl[1] /\ Lower(text[k]) \in VOWELS

C13_Witness ==
    /\ pc = "call"
    /\ variant = "speedcore2midi"
    /\ \E k \in 1..Len(text) : \E j \in 1..Len(text) :
          /\ Lower(text[k]) \in VOWELS /\ Lower(text[j]) \in VOWELS
          /\ <<ClassTicks(text)[k], "LeadSynth">> \in NoteOnPlaces(emitted)
          /\ <<ClassTicks(text)[j], "LeadSynth">> \notin NoteOnPlaces(emitted)

\* An event whose fields are inside the ranges of a MIDI message.
InMidiRange(e) == e[1] >= 0 /\ e[4] \in 0..127 /\ e[5] \in 0..127

\* C14: every event a mapper holds or returns has tick >= 0 and its value
\* and its parameter inside [0,127], whatever the input and the draws; a
\* computed pitch below 0 is stored as 0, one above 127 as 127 (-5 and 140
\* among them), and one inside the range is stored as it is.
C14_EventsInRange ==
    /\ \A k \in 1..Len(event_queue) : InMidiRange(event_queue[k])
    /\ \A k \in 1..Len(merged) : InMidiRange(merged[k])
    /\ \A n \in -5..140 :
          Clamp(n) = (IF n < 0 THEN 0 ELSE IF n > 127 THEN 127 ELSE n)

\* Both ends of the range are met: a returned sequence holds the value 0
\* and the parameter 127 (a sample trigger whose note is 0), and a pitch
\* above the lowest one.
C14_Witness ==
    /\ pc = "call"
    /\ \E k \in 1..Len(merged) : merged[k][4] = 0 /\ merged[k][5] = 127
    /\ \E k \in 1..Len(merged) : merged[k][4] > 0 /\ merged[k][5] = 0

\* A symbol of no class: no sample trigger, separator, letter or digit.
Unencodable(ch) ==
    /\ ~(variant = "speedcore2midi" /\ ch \in SAMPLES)
    /\ ~(ch = " " \/ Lower(ch) \in PUNCTUATION)
    /\ Lower(ch) \notin ENCODABLE

\* C15 (as claimed): in both text mappers the loop iteration of an
\* unencodable symbol emits no event and moves the tick counter on by
\* exactly one.
C15_UnencodableTakesOneTick ==
    [][(/\ variant \in Variants
        /\ Len(text') = Len(text) + 1
        /\ Unencodable(text'[Len(text')]))
       => /\ emitted' = emitted
          /\ current_time' = current_time + 1]_vars

\* What the step that maps one more symbol pushes, in emission order.
Fresh == SubSeq(emitted', Len(emitted) + 1, Len(emitted'))

\* The places of evs that hold an event of this track and action.
PlacesOf(evs, track, action) ==
    {k \in 1..Len(evs) : evs[k][2] = track /\ evs[k][3] = action}

\* C16 (as claimed): in both text mappers a separator (space, '.' or ',')
\* at tick t emits a ControlChange on TB303 at t and, per chord-tone offset,
\* one pad NoteOn at t and one later NoteOff of the same note, emits no bass
\* NoteOn and moves the tick counter on by one; a sample trigger that is no
\* separator emits one NoteOn on the Samples track and nothing else.
C16_SeparatorAndSample ==
    [][(variant \in Variants /\ Len(text') = Len(text) + 1) =>
        LET ch == text'[Len(text')]
            t == current_time
            ons == PlacesOf(Fresh, "PadSynth", "on")
            offs == PlacesOf(Fresh, "PadSynth", "off")
        IN  /\ (ch = " " \/ Lower(ch) \in PUNCTUATION) =>
                  /\ \E k \in PlacesOf(Fresh, "TB303", "cc") : Fresh[k][1] = t
                  /\ Cardinality(ons) = Len(PAD_CHORD_NOTES)
                  /\ Cardinality(offs) = Len(PAD_CHORD_NOTES)
                  /\ \A k \in ons :
                        /\ Fresh[k][1] = t
                        /\ k + 1 \in offs
                        /\ Fresh[k + 1][4] = Fresh[k][4]
                        /\ Fresh[k + 1][1] > t
                  /\ PlacesOf(Fresh, "TB303", "on") = {}
                  /\ current_time' = current_time + 1
            /\ (/\ variant = "speedcore2midi" /\ ch \in SAMPLES
                /\ ~(ch = " " \/ Lower(ch) \in PUNCTUATION)) =>
                  /\ Len(Fresh) = 1
                  /\ Fresh[1][1] = t /\ Fresh[1][2] = "Samples"
                  /\ Fresh[1][3] = "on"]_vars

\* The events of evs with this track and action, as a set of places, that
\* carry the given tick.
PlacesAt(evs, track, action, tk) ==
    {k \in PlacesOf(evs, track, action) : evs[k][1] = tk}

\* C17 (as claimed): for a vowel at tick t the mapper emits one bass NoteOn
\* at t with pitch base + scale[rank mod 5], exactly one bass NoteOff of
\* that note at t + d with d in {1,2}, the glide pair (controller 5: 127 at
\* t, 0 at t + d) if and only if d = 2, and exactly one drum NoteOn at t
\* with its NoteOff at t + 1.
C17_VowelEvents ==
    [][(/\ variant \in Variants /\ Len(text') = Len(text) + 1
        /\ Lower(text'[Len(text')]) \in VOWELS) =>
        LET cl == Lower(text'[Len(text')])
            t == current_time
            rank == IndexIn(VOWEL_ORDER, cl)
            pitch == NOTE_BASE
                     + MINOR_PENTATONIC[(rank % Len(MINOR_PENTATONIC)) + 1]
            bassOn == PlacesOf(Fresh, "TB303", "on")
            bassOff == PlacesOf(Fresh, "TB303", "off")
            glide == {k \in PlacesOf(Fresh, "TB303", "cc") : Fresh[k][4] = 5}
            drumOn == PlacesOf(Fresh, "BP909", "on")
        IN  /\ Cardinality(bassOn) = 1 /\ Cardinality(bassOff) = 1
            /\ \A k \in bassOn : Fresh[k][1] = t /\ Fresh[k][4] = pitch
            /\ \A k \in bassOff :
                  /\ Fresh[k][4] = pitch
                  /\ Fresh[k][1] - t \in {1, 2}
                  /\ IF Fresh[k][1] - t = 2
                     THEN {<<Fresh[j][1], Fresh[j][5]>> : j \in glide}
                              = {<<t, 127>>, <<t + 2, 0>>}
                          /\ Cardinality(glide) = 2
                     ELSE glide = {}
            /\ Cardinality(drumOn) = 1
            /\ \A k \in drumOn :
                  /\ Fresh[k][1] = t
                  /\ \E j \in PlacesAt(Fresh, "BP909", "off", t + 1) :
                        Fresh[j][4] = Fresh[k][4]]_vars

\* The pad chord of Scenario B in a returned sequence evs: a ControlChange,
\* no bass NoteOn, and exactly three pad NoteOns, all at tick 0, the k-th
\* emitted one within detune of the k-th chord tone and followed by a
\* NoteOff of the same note at tick later.
PadChord(evs, pushed, detune, later) ==
    LET chord_root == NOTE_BASE + MINOR_PENTATONIC[1] + OCTAVE
        ons == PlacesOf(pushed, "PadSynth", "on")
        nth(k) == CHOOSE j \in ons : Cardinality({h \in ons : h < j}) = k - 1
    IN  /\ \E k \in 1..Len(evs) : evs[k][3] = "cc"
        /\ PlacesOf(evs, "TB303", "on") = {}
        /\ Cardinality(PlacesOf(evs, "PadSynth", "on")) = Len(PAD_CHORD_NOTES)
        /\ Cardinality(ons) = Len(PAD_CHORD_NOTES)
        /\ \A k \in PlacesOf(evs, "PadSynth", "on") :
              /\ evs[k][1] = 0
              /\ \E j \in PlacesAt(evs, "PadSynth", "off", later) :
                    j > k /\ evs[j][4] = evs[k][4]
        /\ \A k \in 1..Len(PAD_CHORD_NOTES) :
              pushed[nth(k)][4] - (chord_root + PAD_CHORD_NOTES[k]) \in detune

\* C18 (as claimed): the input " " yields a ControlChange, exactly three
\* pad NoteOns at tick 0 with the notes 0, 3 and 7 above the chord root,
\* each followed by a NoteOff of the same note at one fixed later tick, and
\* no bass NoteOn.
C18_SpaceExactChord ==
    (pc = "call" /\ variant \in Variants /\ text = <<" ">>) =>
        \E later \in 1..4 : PadChord(merged, emitted, {0}, later)

\* C18 (amended): as above, with the notes of speedcore2midi detuned by a
\* drawn amount of at most 2 either way and released at tick 1, those of
\* acid2midi exact and released at tick 4.
C18_SpaceChord ==
    (pc = "call" /\ variant \in Variants /\ text = <<" ">>) =>
        IF variant = "acid2midi"
        THEN PadChord(merged, emitted, {0}, 4)
        ELSE PadChord(merged, emitted, -2..2, 1)

C18_Witness ==
    /\ pc = "call" /\ variant = "speedcore2midi" /\ text = <<" ">>
    /\ \E k \in PlacesOf(merged, "PadSynth", "on") :
          merged[k][4] = NOTE_BASE + MINOR_PENTATONIC[1] + OCTAVE + 2
    /\ \E k \in PlacesOf(merged, "PadSynth", "on") :
          merged[k][4] = NOTE_BASE + MINOR_PENTATONIC[1] + OCTAVE + 7 - 2

\* The bass note of a symbol of the given rank: exactly one bass NoteOn, at
\* t, of pitch base + scale[rank mod 5], and exactly one bass NoteOff, of
\* that pitch, at t + 1.
OneTickBass(evs, t, rank) ==
    LET pitch == NOTE_BASE + MINOR_PENTATONIC[(rank % Len(MINOR_PENTATONIC)) + 1]
        on == PlacesOf(evs, "TB303", "on")
        off == PlacesOf(evs, "TB303", "off")
    IN  /\ Cardinality(on) = 1 /\ Cardinality(off) = 1
        /\ \A k \in on : evs[k][1] = t /\ evs[k][4] = pitch
        /\ \A k \in off : evs[k][1] = t + 1 /\ evs[k][4] = pitch

\* The drum voice of a consonant at input position i.
RotationVoice(i) ==
    IF i % 4 = 2 THEN DRUM_NOTES.snare
    ELSE IF i % 4 = 0 THEN DRUM_NOTES.clap
    ELSE IF variant = "acid2midi" THEN DRUM_NOTES.ch ELSE DRUM_NOTES.rim

\* C19: for a consonant at input position i and tick t the mapper emits a
\* bass NoteOn at t of pitch base + scale[rank mod 5], rank being the
\* position in the consonant-order string, its NoteOff at t + 1, a
\* ControlChange of controller 71 at t, and a drum hit at t whose voice is
\* fixed by i mod 4 (snare for 2, clap for 0, a third voice otherwise); for
\* a digit the rank is its integer value and the bass note lasts one tick.
C19_ConsonantAndDigit ==
    [][(variant \in Variants /\ Len(text') = Len(text) + 1) =>
        LET cl == Lower(text'[Len(text')])
            i == Len(text)
            t == current_time
        IN  /\ (InOrder(CONSONANT_ORDER, cl) /\ cl \notin VOWELS) =>
                  /\ OneTickBass(Fresh, t, IndexIn(CONSONANT_ORDER, cl))
                  /\ \E k \in PlacesAt(Fresh, "TB303", "cc", t) : Fresh[k][4] = 71
                  /\ \E k \in PlacesAt(Fresh, "BP909", "on", t) :
                        /\ Fresh[k][4] = RotationVoice(i)
                        /\ \E j \in PlacesAt(Fresh, "BP909", "off", t + 1) :
                              Fresh[j][4] = Fresh[k][4]
            /\ cl \in DIGITS => OneTickBass(Fresh, t, DigitValue(cl))]_vars

\* A clap at position 0, a digit at position 1 and a snare at position 2
\* have been emitted.
C19_Witness ==
    /\ variant \in Variants
    /\ text = <<"t", "7", "z">>
    /\ \E k \in PlacesAt(emitted, "BP909", "on", 0) : emitted[k][4] = DRUM_NOTES.clap
    /\ \E k \in PlacesAt(emitted, "TB303", "on", 1) :
          emitted[k][4] = NOTE_BASE + MINOR_PENTATONIC[3]
    /\ \E k \in PlacesAt(emitted, "BP909", "on", 2) : emitted[k][4] = DRUM_NOTES.snare
    /\ \E k \in PlacesAt(emitted, "TB303", "on", 2) :
          emitted[k][4] = NOTE_BASE + MINOR_PENTATONIC[2]

\* ------------------------------------------------------ claims on the echo
\* The Annotation Stream text_to_event_queue returned (acid2midi pops its
\* char_queue while it plays).
Annotations == SortStable("index", char_timing)

\* C20 (as claimed): in the text players, once the echo step of the
\* iteration for tick t is over, every annotation entry whose tick is <= t
\* has been echoed; what has been echoed is the front of the annotation
\* stream, in input order and without repetition; and when a run has
\* completed, every annotation entry has been echoed.
C20_EchoBeforeDispatch ==
    variant \in Variants =>
        /\ Len(echoed) <= Len(Annotations)
        /\ \A k \in 1..Len(echoed) : echoed[k] = Annotations[k][3]
        /\ pc \in {"dispatch", "record", "sleep", "advance"} =>
              \A k \in 1..Len(Annotations) :
                  Annotations[k][1] <= tick => k <= Len(echoed)
        /\ (pc \in {"drain", "stopped"} /\ exit = "complete") =>
              Len(echoed) = Len(Annotations)

\* ------------------------------------------ claims on the layers of acidtrack
\* The first ticks of the bars of S.
BarStarts(S) == {StartTick(b) : b \in S}

\* C28: whatever is drawn, generate_acid_patterns keeps its layers inside
\* their bars: BassSub has no event before the first tick of bar 2, a crash
\* NoteOn occurs at the first tick of every bar whose index is a multiple of
\* 4 and nowhere else, and SampleBank2 has its NoteOns at the first ticks of
\* bars 20 to 23 and nowhere else.
C28_LayersKeepTheirBars ==
    (pc = "call" /\ variant = "acidtrack") =>
        /\ \A k \in 1..Len(merged) :
              merged[k][2] = "BassSub" => merged[k][1] >= StartTick(2)
        /\ {merged[k][1] : k \in {j \in PlacesOf(merged, "BP909", "on") :
                                      merged[j][4] = DRUM_NOTES.crash}}
               = BarStarts({b \in 0..(BARS - 1) : b % 4 = 0})
        /\ {merged[k][1] : k \in PlacesOf(merged, "SampleBank2", "on")}
               = BarStarts(20..23)

\* The sub-bass has entered at bar 2, and the crash of bar 28 and the riser
\* of bar 23 are in the sequence returned.
C28_Witness ==
    /\ pc = "call" /\ variant = "acidtrack"
    /\ PlacesAt(merged, "BassSub", "on", StartTick(2)) # {}
    /\ \E k \in PlacesAt(merged, "BP909", "on", StartTick(28)) :
          merged[k][4] = DRUM_NOTES.crash
    /\ PlacesAt(merged, "SampleBank2", "on", StartTick(23)) # {}

\* ---------------------------------------------------- claims on the players
\* C27: in a fault-free, uninterrupted run of acid2midi on any text, or of
\* acidtrack, every track's active-notes set is empty when the Running loop
\* ends, and the drain sends no message at all.
C27_NothingLeftToDrain ==
    (/\ pc \in {"drain", "stopped"} /\ exit = "complete"
     /\ variant \in {"acid2midi", "acidtrack"}) =>
        /\ \A d \in DeviceSet(variant) : active_notes[d] = {}
        /\ \A k \in 1..Len(sent) : sent[k].phase # "drain"

\* Device d was sent a NoteOn of a pitch that was sounding: two NoteOns of
\* one pitch with no NoteOff of that pitch between them.
StruckWhileSounding(d) ==
    \E j \in 1..Len(sent) : \E n \in 1..24 :
        /\ j + n <= Len(sent)
        /\ sent[j].dev = d /\ sent[j + n].dev = d
        /\ sent[j].msg[1] = Status(NoteOnByte, d)
        /\ sent[j + n].msg[1] = Status(NoteOnByte, d)
        /\ sent[j].msg[2] = sent[j + n].msg[2]
        /\ \A m \in 1..(n - 1) :
              ~(/\ sent[j + m].dev = d
                /\ sent[j + m].msg[1] = Status(NoteOffByte, d)
                /\ sent[j + m].msg[2] = sent[j].msg[2])

\* A completed run of acid2midi on two separators: the chord of the second
\* was struck while that of the first was sounding.
C27_Witness ==
    /\ pc = "stopped" /\ exit = "complete" /\ variant = "acid2midi"
    /\ text = <<" ", " ">>
    /\ StruckWhileSounding("PadSynth")

\* ------------------------------------------------------- claims on main
\* The retry contract of connect_midi_ports, read off the counters of the
\* call: a pass is counted when it starts, a wait when it is slept.
RetryContract ==
    /\ attempts <= CONNECT_TRIES
    /\ pc \in {"attempt", "route", "open"} => waits = attempts
    /\ pc \in {"list", "bind", "wait"} => waits = attempts - 1
    /\ last_return = "True" => pc = "routed" /\ waits = attempts - 1
    /\ last_return = "False" =>
           pc = "routed" /\ attempts = CONNECT_TRIES /\ waits = CONNECT_TRIES

\* C21: connect_midi_ports makes at most 5 passes, returns True in the first
\* pass whose listing has both ports and whose bind succeeds, sleeps once
\* after every failed pass and returns False after 5 failed passes; and no
\* failure of the routing, a failing port listing included, ends the run
\* before the mapping and the playback.
C21_RoutingNeverFatal == RetryContract /\ pc # "crashed"

\* C22: once the opening of a virtual endpoint has failed in main, the run is
\* over: the connect loop, the mapper and the player were never entered, no
\* event was generated and no message was sent to any sink, the endpoints
\* opened before the failure included.
C22_OpenFailureAborts ==
    open_error # "none" =>
        /\ pc = "aborted"
        /\ open_error \notin midiouts
        /\ route_dev = 0 /\ attempts = 0 /\ last_return = "none"
        /\ text = <<>> /\ event_queue = <<>> /\ emitted = <<>>
        /\ bar = 0 /\ layer = IF variant = "acidtrack" THEN 1 ELSE 0
        /\ merged = <<>> /\ events = <<>> /\ iters = <<>>
        /\ echoed = <<>> /\ sent = <<>> /\ drain_runs = 0

\* An endpoint failed to open after others had been opened.
C22_Witness == pc = "aborted" /\ open_error # "none" /\ midiouts # {}

\* The action nibble of an event's action.
ActionNibble(action) ==
    CASE action = "on" -> NoteOnByte
      [] action = "off" -> NoteOffByte
      [] action = "cc" -> ControlByte

\* The k-th message of the history is a NoteOn of the note on the sink.
IsNoteOnOf(history, k, dev, note) ==
    /\ history[k].dev = dev
    /\ history[k].msg[2] = note
    /\ history[k].msg[1] - (history[k].msg[1] % 16) = NoteOnByte

\* What C23 says of the k-th message of the history.
StatusCarriesChannel(history, queue, k) ==
    LET m == history[k]
        low == m.msg[1] % 16
    IN  /\ low \in 0..15
        /\ low = DeviceChannel(variant, m.dev) - 1
        /\ m.phase = "running" =>
               /\ k <= Len(queue)
               /\ m.dev = queue[k][2]
               /\ m.msg[1] - low = ActionNibble(queue[k][3])
        /\ m.phase = "drain" =>
               /\ m.msg[1] - low = NoteOffByte
               /\ \E j \in 1..(k - 1) :
                      /\ IsNoteOnOf(history, j, m.dev, m.msg[2])
                      /\ history[j].msg[1] % 16 = low

\* C23: the status byte of every message sent, the NoteOffs of the drain
\* included, is the nibble of its action with the channel of its track minus
\* one in the low four bits (acid2midi configures no channel and sends the
\* nibble alone, which is channel 1); a NoteOff of the drain goes to the sink
\* and the channel of an earlier NoteOn of its note.
C23_StatusCarriesChannel ==
    [][\A k \in (Len(sent) + 1)..Len(sent') :
           StatusCarriesChannel(sent', events', k)]_vars

\* The drain of speedcore2midi silences a sample on channel 5.
C23_Witness ==
    /\ variant = "speedcore2midi"
    /\ \E k \in 1..Len(sent) :
           /\ sent[k].phase = "drain"
           /\ sent[k].dev = "Samples"
           /\ sent[k].msg[1] = 132

\* No event of the current tick is left to dispatch.
TickDispatched ==
    event_ptr = Len(events) \/ events[event_ptr + 1][1] > tick

\* C24: an iteration of the Running loop dispatches, then sleeps, then
\* advances: a message of the loop is sent at the tick of its event, after
\* the sleeps of all earlier ticks and before the sleep of its own; the sleep
\* of tick t starts when every event of t has been sent; the tick advances by
\* one after exactly one sleep, whatever the number of events of the tick.
C24_DispatchSleepAdvance ==
    [][/\ \A k \in (Len(sent) + 1)..Len(sent') :
              sent'[k].phase = "running" =>
                  /\ sent'[k].at = tick
                  /\ events[k][1] = tick
                  /\ Len(sleeps) = tick
                  /\ sleeps' = sleeps /\ tick' = tick
       /\ sleeps' # sleeps =>
              /\ sleeps' = Append(sleeps, tick)
              /\ Len(sleeps) = tick
              /\ TickDispatched
              /\ Len(sent) = event_ptr
              /\ sent' = sent /\ tick' = tick
       /\ tick' # tick =>
              /\ tick' = tick + 1
              /\ Len(sleeps) = tick + 1
              /\ sleeps[tick + 1] = tick
              /\ sent' = sent /\ sleeps' = sleeps]_vars

\* A run went through a tick with several events, a tick with one or none,
\* and slept once in each.
C24_Witness ==
    /\ Len(sleeps) >= 2
    /\ tick = Len(sleeps)
    /\ \E j, k \in 1..Len(sent) : j < k /\ sent[j].at = 0 /\ sent[k].at = 0
    /\ Cardinality({k \in 1..Len(sent) : sent[k].at = 1}) <= 1

\* The events a step of the player dispatched and recorded.
Dispatched == {events[k] : k \in (event_ptr + 1)..event_ptr'}

\* C25: the sets of active notes are created empty, one per track, when the
\* player starts; after that the set of a track changes only in a step that
\* dispatches a NoteOn or NoteOff of that track, by the note of that event
\* alone, so a NoteOff of note n on one track leaves n in the set of every
\* other track; a ControlChange changes no set.
C25_TracksOwnTheirNotes ==
    [][/\ pc = "call" =>
              /\ DOMAIN active_notes' = DeviceSet(variant)
              /\ \A d \in DeviceSet(variant) : active_notes'[d] = {}
       /\ pc # "call" /\ active_notes' # active_notes =>
              /\ DOMAIN active_notes' = DOMAIN active_notes
              /\ events' = events
              /\ \A d \in DOMAIN active_notes :
                     active_notes'[d] # active_notes[d] =>
                         \E e \in Dispatched :
                             e[2] = d /\ e[3] \in {"on", "off"}
       /\ pc = "record" /\ pc' = "dispatch" =>
              LET e == events[event_ptr + 1] IN
              /\ event_ptr' = event_ptr + 1
              /\ \A d \in DOMAIN active_notes :
                     active_notes'[d] =
                         IF d # e[2] \/ e[3] = "cc" THEN active_notes[d]
                         ELSE IF e[3] = "on" THEN active_notes[d] \cup {e[4]}
                         ELSE active_notes[d] \ {e[4]}]_vars

\* A NoteOff of a note was just recorded on one track while the same note
\* number is sounding on another.
C25_Witness ==
    /\ pc = "dispatch"
    /\ event_ptr > 0
    /\ LET e == events[event_ptr] IN
       /\ e[3] = "off"
       /\ e[4] \notin active_notes[e[2]]
       /\ \E d \in DeviceSet(variant) : d # e[2] /\ e[4] \in active_notes[d]

\* ControlChange before NoteOff before NoteOn.
ActionOrder(action) ==
    CASE action = "cc" -> 1 [] action = "off" -> 2 [] action = "on" -> 3

\* The position before the first event of the current tick, walking back
\* from ptr.
RECURSIVE TickFrom(_)
TickFrom(ptr) ==
    IF ptr > 0 /\ events[ptr][1] = tick THEN TickFrom(ptr - 1) ELSE ptr

\* C26: the player keeps the order of the Merged Sequence, in which of two
\* events of one tick and one track a ControlChange stands before a NoteOff
\* and a NoteOff before a NoteOn; the messages of a tick go out in that
\* order; and every note with a NoteOn in a tick is in the track's set of
\* active notes when the tick's sleep starts, also when a NoteOff of the same
\* track and note fell on that tick.
C26_ControlOffOnWithinTick ==
    [][/\ pc = "call" =>
              /\ Len(events') = Len(merged)
              /\ \A j \in 1..Len(merged) :
                     /\ events'[j][1] = merged[j][1]
                     /\ events'[j][2] = merged[j][2]
                     /\ events'[j][3] = merged[j][3]
                     /\ events'[j][4] = merged[j][4]
              /\ \A j \in 1..Len(merged) : \A k \in (j + 1)..Len(merged) :
                     /\ merged[j][1] <= merged[k][1]
                     /\ merged[j][1] = merged[k][1] /\ merged[j][2] = merged[k][2]
                            => ActionOrder(merged[j][3]) <= ActionOrder(merged[k][3])
       /\ \A k \in (Len(sent) + 1)..Len(sent') :
              sent'[k].phase = "running" =>
                  /\ sent'[k].dev = events[k][2]
                  /\ sent'[k].msg[2] = events[k][4]
                  /\ sent'[k].msg[1] - (sent'[k].msg[1] % 16)
                         = ActionNibble(events[k][3])
       /\ pc = "sleep" /\ pc' = "advance" =>
              \A k \in (TickFrom(event_ptr) + 1)..event_ptr :
                  events[k][3] = "on" => events[k][4] \in active_notes[events[k][2]]]_vars

\* The sleep of a tick starts after a ControlChange and a NoteOn of one track
\* and after a NoteOff and a NoteOn of one track and note were dispatched in it.
C26_Witness ==
    /\ pc = "sleep"
    /\ \E j, k \in (TickFrom(event_ptr) + 1)..event_ptr :
           /\ events[j][2] = events[k][2]
           /\ events[j][3] = "cc" /\ events[k][3] = "on"
    /\ \E j, k \in (TickFrom(event_ptr) + 1)..event_ptr :
           /\ events[j][2] = events[k][2]
           /\ events[j][4] = events[k][4]
           /\ events[j][3] = "off" /\ events[k][3] = "on"

====
